---- MODULE Spec2Model ----
(***************************************************************************)
(* GEO-AUDITOR: the citability scoring engine.                             *)
(*                                                                         *)
(* The model follows backend/main.py (audit_url), the nine detectors under *)
(* backend/src/detectors and the report model backend/src/models/schemas.  *)
(*                                                                         *)
(* Numbers.  Python computes with floats; the model computes with          *)
(* integers in fixed units:                                                *)
(*   weight           hundredths            (0.12 is 12)                   *)
(*   raw_score        1/ScoreUnit point     (100.0 is 100 * ScoreUnit)     *)
(*   weighted_score   raw_score * weight    (1/(100*ScoreUnit) point)      *)
(*   score            same unit as weighted_score                          *)
(*   contribution     score * weight        (1/(10000*ScoreUnit) point)    *)
(* ScoreUnit is the least common multiple of the possible claim counts, so *)
(* that the evidence ratio verified/total*100 is an integer.               *)
(***************************************************************************)
EXTENDS Integers, Sequences, FiniteSets, TLC

VARIABLES
    request,              \* AuditRequest: url and content_text
    weights_ok,           \* the scoring_weights.json file can be opened and parsed
    weights_table,        \* its entries: dimension / subdimension -> weight
    set_order,            \* iteration order of the set CRITICAL_TYPES in this process
    web,                  \* the page behind the url, or the markup of content_text
    failing,              \* the evaluation steps that raise on this page
    pc,                   \* position of audit_url
    page_data,            \* PageData built by step 1 of audit_url
    detector_results,     \* audit_url's list detector_results
    all_recommendations,  \* audit_url's list all_recommendations
    response,             \* what audit_url returns or raises
    scraper,              \* the shared PlaywrightScraper: _playwright and _browser
    resources,            \* drivers, browsers and contexts that are open
    calls                 \* the scrape() calls and the close() call in progress

vars == <<request, weights_ok, weights_table, set_order, web, failing, pc, page_data,
          detector_results, all_recommendations, response, scraper, resources, calls>>

\* the state of the scraper instance, left alone by the steps of audit_url
scraper_vars == <<scraper, resources, calls>>

-----------------------------------------------------------------------------
(* Bounds of the model *)

\* How many faults (raising steps, weight-file entries, a failing scrape) an
\* audit of a base page may meet at once
MaxFaults == 1

\* Largest number of claims a page makes (evidence detector)
MaxClaims == 5

\* Largest count kept for countable page features (H2 headers, trust pages,
\* links, lists...)
MaxCount == 3

-----------------------------------------------------------------------------
(* Arithmetic helpers *)

Min(a, b) == IF a <= b THEN a ELSE b

RECURSIVE GCD(_, _)
GCD(a, b) == IF b = 0 THEN a ELSE GCD(b, a % b)

RECURSIVE LCMUpTo(_)
LCMUpTo(n) == IF n <= 1 THEN 1 ELSE (LCMUpTo(n - 1) * n) \div GCD(LCMUpTo(n - 1), n)

ScoreUnit == LCMUpTo(MaxClaims)

\* n points as a raw_score
Pts(n) == n * ScoreUnit

RECURSIVE SumSeq(_, _)
\* sum(f(item) for item in s), the field taken by name
SumSeq(s, field) ==
    IF s = <<>> THEN 0 ELSE s[1][field] + SumSeq(Tail(s), field)

RECURSIVE Flatten(_)
\* the concatenation of a sequence of sequences
Flatten(ss) == IF ss = <<>> THEN <<>> ELSE ss[1] \o Flatten(Tail(ss))

\* s[:n] of Python
Prefix(s, n) == SubSeq(s, 1, Min(n, Len(s)))

-----------------------------------------------------------------------------
(* The page snapshot.                                                        *)
(*                                                                           *)
(* A page is described by the facts the detectors read off it: each field    *)
(* is one value that the code computes from PageData (a flag, a count, the   *)
(* outcome of a regular expression), named after the code's local variable.  *)

LoadTimes ==
    {0, 1000, 1999, 2000, 3000, 3999, 4000, 5000, 5999, 6000, 8000, 9999, 10000, 12000}

WordCounts == {0, 30, 150, 600, 2400}

\* avg_length of _analyze_sentence_length; 0 stands for "no sentence found"
SentenceLengths == {0, 15, 22, 30}

\* avg_mentions of _analyze_entity_density, rounded down
MentionLevels == {0, 1, 2, 4}

\* found_ratio of _analyze_power_lead, in percent
LeadRatios == {0, 30, 50, 80}

\* What FreshnessDetector._extract_date finds: nothing, a string no format
\* parses, a naive date of some age, a date after the reference "now", or an
\* ISO timestamp with an explicit UTC offset
DateKinds == {"none", "unparsable", "fresh", "aging", "outdated", "future", "aware"}

Counts == 0..MaxCount

\* <<part, whole>> pairs with part <= whole
Pairs(n) == {pr \in (0..n) \X (0..n) : pr[1] <= pr[2]}

\* Where the citation of a claim sentence without an inline marker sits:
\*   marker_lookahead   a [n] marker within the 20 characters after the sentence
\*   prefix_in_html     the first 30 characters of the sentence occur unbroken
\*                      in html_rendered (no tag or entity inside them)
\*   link_in_window     an anchor tag within 200 characters of that occurrence
\*   link_in_element    an anchor in the element holding the sentence or in one
\*                      of its 2 siblings on either side, short of a heading
\*                      or rule
Contexts ==
    [marker_lookahead : BOOLEAN, prefix_in_html : BOOLEAN,
     link_in_window : BOOLEAN, link_in_element : BOOLEAN]

\* A group of anchors of one kind: how the href is written ("absolute" starts
\* with http, "schemeless" is //host/path, "relative" is a path), and whose
\* host it names: the page's own, a social or partner site, a site whose
\* name merely contains a listed one (netflix.com contains x.com), or another
LinkGroups ==
    {[form |-> g[1], host |-> g[2], count |-> n] :
        g \in {<<"relative", "own">>, <<"absolute", "own">>, <<"absolute", "social">>,
               <<"absolute", "partner">>, <<"absolute", "lookalike">>,
               <<"schemeless", "other">>},
        n \in Counts}

\* No further anchors
NoLinks == [form |-> "relative", host |-> "own", count |-> 0]

\* A claim sentence with nothing citing it
Uncited ==
    [marker_lookahead |-> FALSE, prefix_in_html |-> TRUE,
     link_in_window |-> FALSE, link_in_element |-> FALSE]

\* An HTML document as the scraper and the infrastructure detector read it:
\* how many characters it has of each kind, and what the indicator patterns
\* of _detect_ssr find in it.
\*   chars   characters that are not whitespace
\*   blanks  spaces and newlines
\*   tabs    other whitespace (tabs, carriage returns)
Markup(chars, tabs, paragraphs, headings, container) ==
    [chars |-> chars, blanks |-> IF chars > 0 THEN 1000 ELSE 0, tabs |-> tabs,
     paragraphs |-> paragraphs, headings |-> headings, container |-> container]

\* A document without a character
NoMarkup == Markup(0, 0, 0, 0, FALSE)

\* html_raw: the document before scripts ran
RawHtmls ==
    {Markup(0, t, 0, 0, FALSE) : t \in {0, 2000}}
    \cup {Markup(6000, t, ps, hs, c) :
              t \in {0, 2000}, ps \in {0, 2, 3}, hs \in {0, 1, 2}, c \in BOOLEAN}

\* html_rendered: the document after scripts ran (its elements are read
\* through the other features)
RenderedHtmls ==
    {Markup(n, t, 0, 0, FALSE) : n \in {0, 8000, 9000, 12000}, t \in {0, 2000}}

\* The <p> elements of fewer than 10 words that precede every longer one:
\* there is none, or the first of them contains a definition phrase ("SEO is
\* the process of optimizing websites..."), or it is some other short text
\* that is not a narrative opener
Openings == {"none", "definition", "plain"}

FeatureValues == [
    \* the scraper: <<html_raw, html_rendered>>
    html              |-> RawHtmls \X RenderedHtmls,
    \* InfrastructureDetector
    is_https          |-> BOOLEAN,
    has_noindex       |-> BOOLEAN,
    has_nofollow      |-> BOOLEAN,
    has_none          |-> BOOLEAN,
    has_canonical     |-> BOOLEAN,
    load_time_ms      |-> LoadTimes,
    \* MetadataDetector
    has_jsonld        |-> BOOLEAN,
    matched_critical  |-> BOOLEAN,
    matched_entities  |-> BOOLEAN,
    \* AEOStructureDetector
    word_count        |-> WordCounts,
    opening           |-> Openings,
    first_p           |-> BOOLEAN,
    has_definition    |-> BOOLEAN,
    has_action_verb   |-> BOOLEAN,
    has_numeric_data  |-> BOOLEAN,
    has_named_entities|-> BOOLEAN,
    is_narrative      |-> BOOLEAN,
    is_too_long       |-> BOOLEAN,
    h2_plain          |-> Counts,
    h2_question       |-> Counts,
    h2_generic        |-> Counts,
    h3_count          |-> Counts,
    text_walls        |-> Counts,
    avg_sentence      |-> SentenceLengths,
    connector_count   |-> Counts,
    \* EntityDetector
    title             |-> BOOLEAN,
    lead_entities     |-> BOOLEAN,
    found_ratio       |-> LeadRatios,
    has_declarative   |-> BOOLEAN,
    has_number        |-> BOOLEAN,
    has_year          |-> BOOLEAN,
    has_specific_terms|-> BOOLEAN,
    brand_like        |-> BOOLEAN,
    long_title        |-> BOOLEAN,
    density_entities  |-> BOOLEAN,
    avg_mentions      |-> MentionLevels,
    \* EvidenceDensityDetector: <<claims with an inline citation marker, claims>>
    claims            |-> Pairs(MaxClaims),
    \* ... and the context of the claims without an inline marker
    citation          |-> Contexts,
    \* AuthorityDetector
    has_author        |-> BOOLEAN,
    signal_count      |-> Counts,
    trust_high        |-> Counts,
    trust_basic       |-> Counts,
    \* FormattingDetector
    valid_lists       |-> Counts,
    long_paragraphs   |-> Counts,
    good_bolds        |-> Counts,
    bad_bolds         |-> Counts,
    images            |-> Pairs(MaxCount),   \* <<imgs_with_alt, len(img_tags)>>
    videos            |-> Counts,
    \* FreshnessDetector
    date              |-> DateKinds,
    found_year        |-> BOOLEAN,
    \* LinksDetector: <<distinct authority domains, citation links>>
    links             |-> Pairs(MaxCount),
    \* ... and one more group of anchors
    more_links        |-> LinkGroups
]

Features == DOMAIN FeatureValues

\* A snapshot with no text and no markup (text_content = "", html = "")
EmptyPage == [
    html |-> <<NoMarkup, NoMarkup>>,
    is_https |-> FALSE,
    has_noindex |-> FALSE, has_nofollow |-> FALSE, has_none |-> FALSE,
    has_canonical |-> FALSE, load_time_ms |-> 1000,
    has_jsonld |-> FALSE, matched_critical |-> FALSE, matched_entities |-> FALSE,
    word_count |-> 0, opening |-> "none", first_p |-> FALSE, has_definition |-> FALSE,
    has_action_verb |-> FALSE, has_numeric_data |-> FALSE, has_named_entities |-> FALSE,
    is_narrative |-> FALSE, is_too_long |-> FALSE,
    h2_plain |-> 0, h2_question |-> 0, h2_generic |-> 0, h3_count |-> 0,
    text_walls |-> 0, avg_sentence |-> 0, connector_count |-> 0,
    title |-> FALSE, lead_entities |-> FALSE, found_ratio |-> 0,
    has_declarative |-> FALSE, has_number |-> FALSE, has_year |-> FALSE,
    has_specific_terms |-> FALSE, brand_like |-> FALSE, long_title |-> FALSE,
    density_entities |-> FALSE, avg_mentions |-> 0,
    claims |-> <<0, 0>>,
    citation |-> Uncited,
    has_author |-> FALSE, signal_count |-> 0, trust_high |-> 0, trust_basic |-> 0,
    valid_lists |-> 0, long_paragraphs |-> 0, good_bolds |-> 0, bad_bolds |-> 0,
    images |-> <<0, 0>>, videos |-> 0,
    date |-> "none", found_year |-> FALSE,
    links |-> <<0, 0>>, more_links |-> NoLinks
]

\* An ordinary article: some structure, some evidence, middling on most checks
TypicalPage == [
    html |-> <<Markup(6000, 0, 2, 1, FALSE), Markup(12000, 0, 0, 0, FALSE)>>,
    is_https |-> TRUE,
    has_noindex |-> FALSE, has_nofollow |-> FALSE, has_none |-> FALSE,
    has_canonical |-> FALSE, load_time_ms |-> 3000,
    has_jsonld |-> TRUE, matched_critical |-> FALSE, matched_entities |-> TRUE,
    word_count |-> 600, opening |-> "none", first_p |-> TRUE, has_definition |-> FALSE,
    has_action_verb |-> FALSE, has_numeric_data |-> FALSE, has_named_entities |-> FALSE,
    is_narrative |-> FALSE, is_too_long |-> FALSE,
    h2_plain |-> 3, h2_question |-> 0, h2_generic |-> 1, h3_count |-> 0,
    text_walls |-> 1, avg_sentence |-> 22, connector_count |-> 1,
    title |-> TRUE, lead_entities |-> TRUE, found_ratio |-> 50,
    has_declarative |-> FALSE, has_number |-> FALSE, has_year |-> FALSE,
    has_specific_terms |-> TRUE, brand_like |-> TRUE, long_title |-> TRUE,
    density_entities |-> TRUE, avg_mentions |-> 1,
    claims |-> <<1, 3>>,
    citation |-> Uncited,
    has_author |-> FALSE, signal_count |-> 1, trust_high |-> 0, trust_basic |-> 2,
    valid_lists |-> 0, long_paragraphs |-> 1, good_bolds |-> 1, bad_bolds |-> 1,
    images |-> <<1, 2>>, videos |-> 0,
    date |-> "aging", found_year |-> FALSE,
    links |-> <<1, 2>>, more_links |-> NoLinks
]

\* A page on which every sub-metric reaches its top tier
PerfectPage == [
    html |-> <<Markup(6000, 0, 3, 2, TRUE), Markup(8000, 0, 0, 0, FALSE)>>,
    is_https |-> TRUE,
    has_noindex |-> FALSE, has_nofollow |-> FALSE, has_none |-> FALSE,
    has_canonical |-> TRUE, load_time_ms |-> 1000,
    has_jsonld |-> TRUE, matched_critical |-> TRUE, matched_entities |-> TRUE,
    word_count |-> 600, opening |-> "none", first_p |-> TRUE, has_definition |-> TRUE,
    has_action_verb |-> TRUE, has_numeric_data |-> TRUE, has_named_entities |-> TRUE,
    is_narrative |-> FALSE, is_too_long |-> FALSE,
    h2_plain |-> 1, h2_question |-> 2, h2_generic |-> 0, h3_count |-> 2,
    text_walls |-> 0, avg_sentence |-> 15, connector_count |-> 3,
    title |-> TRUE, lead_entities |-> TRUE, found_ratio |-> 80,
    has_declarative |-> TRUE, has_number |-> TRUE, has_year |-> TRUE,
    has_specific_terms |-> TRUE, brand_like |-> TRUE, long_title |-> TRUE,
    density_entities |-> TRUE, avg_mentions |-> 4,
    claims |-> <<5, 5>>,
    citation |-> Uncited,
    has_author |-> TRUE, signal_count |-> 3, trust_high |-> 2, trust_basic |-> 1,
    valid_lists |-> 1, long_paragraphs |-> 0, good_bolds |-> 2, bad_bolds |-> 0,
    images |-> <<2, 2>>, videos |-> 1,
    date |-> "fresh", found_year |-> TRUE,
    links |-> <<2, 3>>, more_links |-> NoLinks
]

BasePages == {EmptyPage, TypicalPage, PerfectPage}

\* PageData(..., is_ssr=...): the facts of the page and the rendering flag
PageData(p, html, is_ssr) ==
    [f \in DOMAIN p \cup {"is_ssr"} |->
        IF f = "is_ssr" THEN is_ssr ELSE IF f = "html" THEN html ELSE p[f]]

\* The features read off html_raw
RawFeatures ==
    {"has_jsonld", "matched_critical", "matched_entities", "valid_lists",
     "long_paragraphs", "good_bolds", "bad_bolds", "images", "videos", "found_year"}

\* The features read off html_rendered or off the text extracted from it
RenderedFeatures ==
    (Features \ RawFeatures)
    \ {"html", "is_https", "has_noindex", "has_nofollow", "has_none", "load_time_ms",
       "date", "has_author"}

\* Facts that cannot be separated on a real page: an empty document has no
\* feature; a page without words has no paragraph, header or sentence; a year
\* is a number; the measured lead paragraph exists when it is classified.
WellFormed(p) ==
    /\ p.html[1].chars = 0 =>
          /\ \A f \in RawFeatures : p[f] = EmptyPage[f]
          /\ p.date \in {"none", "unparsable", "fresh", "aging", "outdated", "future"}
    /\ p.html[2].chars = 0 =>
          \A f \in RenderedFeatures : p[f] = EmptyPage[f]
    /\ p.html[1].chars = 0 /\ p.html[2].chars = 0 =>
          p.date = "none" /\ ~p.has_author
    /\ p.word_count = 0 =>
          /\ ~p.first_p /\ p.opening = "none"
          /\ p.h2_plain + p.h2_question + p.h2_generic + p.h3_count = 0
          /\ p.text_walls = 0 /\ p.avg_sentence = 0 /\ p.connector_count = 0
          /\ p.claims[2] = 0 /\ p.signal_count = 0 /\ ~p.has_author
    /\ ~p.first_p =>
          ~(p.has_definition \/ p.has_action_verb \/ p.has_numeric_data
            \/ p.has_named_entities \/ p.is_narrative \/ p.is_too_long)
    /\ p.is_too_long => p.word_count > 60
    /\ p.claims[1] = p.claims[2] => p.citation = Uncited
    /\ p.more_links.count = 0 => p.more_links = NoLinks
    /\ p.text_walls > 0 => p.word_count > 500
    /\ p.has_year => p.has_number
    /\ ~p.title =>
          ~(p.lead_entities \/ p.density_entities \/ p.has_number
            \/ p.has_specific_terms \/ p.brand_like \/ p.long_title)

-----------------------------------------------------------------------------
(* The report model (schemas.py) *)

\* Field(..., ge=0, le=100) on a raw_score
ValidRaw(raw) == raw >= 0 /\ raw <= Pts(100)

\* Field(..., ge=0, le=1) on a weight
ValidWeight(w) == w >= 0 /\ w <= 100

\* Field(..., ge=0, le=100) on a weighted_score or a dimension score
ValidScore(x) == x >= 0 /\ x <= Pts(100) * 100

\* Field(..., ge=0, le=100) on a contribution or the total_score
ValidTotal(x) == x >= 0 /\ x <= Pts(100) * 100 * 100

\* ScoreBreakdown(name=, raw_score=, weight=, weighted_score=raw_score * weight, ...)
ScoreBreakdown(name, raw, w, recs) ==
    [name |-> name, raw_score |-> raw, weight |-> w, weighted_score |-> raw * w,
     recommendations |-> recs]

\* pydantic accepts the ScoreBreakdown
ValidBreakdown(b) ==
    ValidRaw(b.raw_score) /\ ValidWeight(b.weight) /\ ValidScore(b.weighted_score)

\* a status whose tiers start above their boundary
StatusAboveBoundary(score) ==
    IF score > Pts(80) * 100 THEN "green"
    ELSE IF score > Pts(50) * 100 THEN "yellow"
    ELSE "red"

\* DetectorResult.status
status(score) ==
    IF score >= Pts(80) * 100 THEN "green"
    ELSE IF score >= Pts(50) * 100 THEN "yellow"
    ELSE "red"

\* A contribution that forgets the dimension weight
ContributionUnweighted(score, w) == score

\* BaseDetector.calculate_contribution
calculate_contribution(score, w) == score * w

\* The value an analyze call produces: it raised, or it returned a DetectorResult
Raised == [raised |-> TRUE]

\* DetectorResult(dimension=, score=, weight=, contribution=, breakdown=, errors=);
\* pydantic raises a ValidationError when a field is out of range
DetectorResult(dimension, score, w, breakdown, errors) ==
    LET contribution == calculate_contribution(score, w)
    IN  IF ValidScore(score) /\ ValidWeight(w) /\ ValidTotal(contribution)
           /\ \A i \in DOMAIN breakdown : ValidBreakdown(breakdown[i])
        THEN [raised |-> FALSE,
              result |-> [dimension |-> dimension, score |-> score, weight |-> w,
                          contribution |-> contribution, breakdown |-> breakdown,
                          errors |-> errors]]
        ELSE Raised

\* _create_error_breakdown of the detectors that isolate their evaluators
create_error_breakdown(name, w) ==
    [name |-> name, raw_score |-> 0, weight |-> w, weighted_score |-> 0,
     recommendations |-> <<"Manual verification required: " \o name \o ".">>]

-----------------------------------------------------------------------------
(* Configuration (config/settings.py) and the detectors' constructors *)

\* weights.get("dimensions", {}).get(dimension, {}).get("weight", default) inside
\* try/except: the default when the file cannot be loaded or has no entry
ConfigWeight(key, default) ==
    IF weights_ok /\ key \in DOMAIN weights_table THEN weights_table[key] ELSE default

\* One evaluator call of a detector that wraps each evaluator in try/except:
\* the step, the ScoreBreakdown the evaluator computes, and the name and
\* weight given to _create_error_breakdown in the except branch
Try(step, item, err_name, w) ==
    [step |-> step, item |-> item, err_name |-> err_name, w |-> w]

\* the evaluator raised: a failure inside it, or pydantic rejecting its result
Failed(t) == t.step \in failing \/ ~ValidBreakdown(t.item)

\* try: breakdown.append(evaluator(...))
\* except Exception: breakdown.append(self._create_error_breakdown(name, weight))
Outcome(t) == IF Failed(t) THEN create_error_breakdown(t.err_name, t.w) ELSE t.item

StepOf(t) == t.step

\* the breakdown list after the evaluators ran in order
BreakdownOf(tries) == [i \in DOMAIN tries |-> Outcome(tries[i])]

\* the errors list: one message per evaluator that raised
ErrorsOf(tries) ==
    LET failed == SelectSeq(tries, Failed)
    IN  [i \in DOMAIN failed |-> StepOf(failed[i])]

-----------------------------------------------------------------------------
(* Layer 1: InfrastructureDetector *)

INFRA_WEIGHT == 12
HTTPS_WEIGHT == 25
SSR_WEIGHT == 30
CRAWLABILITY_WEIGHT == 25
SPEED_WEIGHT == 20

SPEED_EXCELLENT == 2000
SPEED_GOOD == 4000
SPEED_ACCEPTABLE == 6000
SPEED_POOR == 10000

analyze_https(p, w) ==
    ScoreBreakdown("HTTPS Security",
        IF p.is_https THEN Pts(100) ELSE 0, w,
        IF p.is_https THEN <<>> ELSE <<"CRITICAL: Migrate to HTTPS.">>)

\* len(html): every character counts
Length(html) == html.chars + html.blanks + html.tabs

\* raw_has_content = len(page_data.html_raw) > 5000
raw_has_content(html_raw) == Length(html_raw) > 5000

analyze_ssr(p, w) ==
    IF p.is_ssr
    THEN ScoreBreakdown("Rendering Mode (SSR/CSR)", Pts(100), w, <<>>)
    ELSE IF raw_has_content(p.html[1])
    THEN ScoreBreakdown("Rendering Mode (SSR/CSR)", Pts(50), w,
            <<"Consider implementing SSR or pre-rendering.">>)
    ELSE ScoreBreakdown("Rendering Mode (SSR/CSR)", Pts(20), w,
            <<"IMPORTANT: Implement SSR, SSG, or pre-rendering.",
              "LLM crawlers might not execute JavaScript.",
              "Content invisible to generative answer engines.">>)

\* a precedence that looks at 'nofollow' first
CrawlabilityNofollowFirst(p, w) ==
    IF p.has_nofollow
    THEN ScoreBreakdown("Crawlability", Pts(70), w, <<"Consider removing 'nofollow'.">>)
    ELSE IF p.has_noindex \/ p.has_none
    THEN ScoreBreakdown("Crawlability", 0, w, <<"Remove 'noindex'.">>)
    ELSE ScoreBreakdown("Crawlability",
            IF p.has_canonical THEN Pts(100) ELSE Pts(90), w,
            IF p.has_canonical THEN <<>> ELSE <<"Add canonical tag.">>)

analyze_crawlability(p, w) ==
    IF p.has_noindex \/ p.has_none
    THEN ScoreBreakdown("Crawlability", 0, w, <<"Remove 'noindex'.">>)
    ELSE IF p.has_nofollow
    THEN ScoreBreakdown("Crawlability", Pts(70), w, <<"Consider removing 'nofollow'.">>)
    ELSE ScoreBreakdown("Crawlability",
            IF p.has_canonical THEN Pts(100) ELSE Pts(90), w,
            IF p.has_canonical THEN <<>> ELSE <<"Add canonical tag.">>)

\* tiers that take their upper boundary in
SpeedScoreInclusive(load_time_ms) ==
    IF load_time_ms <= SPEED_EXCELLENT THEN 100
    ELSE IF load_time_ms <= SPEED_GOOD THEN 80
    ELSE IF load_time_ms <= SPEED_ACCEPTABLE THEN 60
    ELSE IF load_time_ms <= SPEED_POOR THEN 30
    ELSE 0

speed_score(load_time_ms) ==
    IF load_time_ms < SPEED_EXCELLENT THEN 100
    ELSE IF load_time_ms < SPEED_GOOD THEN 80
    ELSE IF load_time_ms < SPEED_ACCEPTABLE THEN 60
    ELSE IF load_time_ms < SPEED_POOR THEN 30
    ELSE 0

analyze_speed(p, w) ==
    LET raw == speed_score(p.load_time_ms)
    IN  ScoreBreakdown("Page Load Speed", Pts(raw), w,
            (IF raw < 100 THEN <<"Goal: reduce load time to <2s.">> ELSE <<>>)
            \o (IF raw < 60
                THEN <<"Check Core Web Vitals.", "Optimize images, critical CSS.">>
                ELSE <<>>))

InfrastructureAnalyze(p) ==
    LET w_https == ConfigWeight("https", HTTPS_WEIGHT)
        w_ssr   == ConfigWeight("ssr_detection", SSR_WEIGHT)
        w_crawl == ConfigWeight("crawlability", CRAWLABILITY_WEIGHT)
        w_speed == ConfigWeight("render_speed", SPEED_WEIGHT)
        tries == <<
            Try("infra.https", analyze_https(p, w_https), "HTTPS Security", w_https),
            Try("infra.ssr", analyze_ssr(p, w_ssr), "Rendering Mode", w_ssr),
            Try("infra.crawlability", analyze_crawlability(p, w_crawl),
                "Crawlability", w_crawl),
            Try("infra.speed", analyze_speed(p, w_speed), "Page Load Speed", w_speed) >>
        breakdown == BreakdownOf(tries)
        total_score == SumSeq(breakdown, "weighted_score")
    IN  DetectorResult("technical_infrastructure", total_score,
                       ConfigWeight("technical_infrastructure", INFRA_WEIGHT),
                       breakdown, ErrorsOf(tries))

-----------------------------------------------------------------------------
(* Layer 2: MetadataDetector *)

METADATA_WEIGHT == 8
SCHEMA_PRESENCE_WEIGHT == 40
CRITICAL_TYPES_WEIGHT == 40
ENTITY_DEPTH_WEIGHT == 20

\* STRICT CAP of the dimension score when no critical type was found, in points
METADATA_CAP == 30

analyze_presence(p, has_critical_types) ==
    IF p.has_jsonld
    THEN ScoreBreakdown("Schema Presence", Pts(100), SCHEMA_PRESENCE_WEIGHT, <<>>)
    ELSE IF has_critical_types
    THEN ScoreBreakdown("Schema Presence", 0, SCHEMA_PRESENCE_WEIGHT,
            <<"Move your structured data to JSON-LD format.",
              "Weak Schema Detected (RDFa/Microdata only).">>)
    ELSE ScoreBreakdown("Schema Presence", 0, SCHEMA_PRESENCE_WEIGHT,
            <<"Implement JSON-LD Schema.">>)

\* The set CRITICAL_TYPES of MetadataDetector
CRITICAL_TYPES == {"Article", "BlogPosting", "NewsArticle", "FAQPage", "Product"}

\* list(self.CRITICAL_TYPES): the order in which the interpreter iterates the
\* set. It follows the string hashes, which are salted anew in every process
\* (hash randomization), so it is one of the orders below
IterationOrders ==
    {<<"Article", "BlogPosting", "NewsArticle", "FAQPage", "Product">>,
     <<"FAQPage", "Product", "Article", "NewsArticle", "BlogPosting">>}

\* f"Add one of the following Schema types: {', '.join(list(self.CRITICAL_TYPES)[:3])}."
critical_types_hint(order) ==
    "Add one of the following Schema types: "
        \o order[1] \o ", " \o order[2] \o ", " \o order[3] \o "."

analyze_critical_types(p, order) ==
    IF p.matched_critical
    THEN ScoreBreakdown("Critical Schema Types", Pts(100), CRITICAL_TYPES_WEIGHT, <<>>)
    ELSE ScoreBreakdown("Critical Schema Types", 0, CRITICAL_TYPES_WEIGHT,
            <<critical_types_hint(order)>>)

analyze_entity_depth(p) ==
    IF p.matched_entities
    THEN ScoreBreakdown("Entity Depth (E-E-A-T)", Pts(100), ENTITY_DEPTH_WEIGHT, <<>>)
    ELSE ScoreBreakdown("Entity Depth (E-E-A-T)", 0, ENTITY_DEPTH_WEIGHT,
            <<"Define an Author (Person) or Publisher (Organization).",
              "This reinforces Authority and Trustworthiness.">>)

\* A MetadataDetector that caps every score
MetadataCapAlways(total_score, types_raw) == Min(Pts(METADATA_CAP) * 100, total_score)

\* A MetadataDetector without the cap
MetadataUncapped(total_score, types_raw) == total_score

\* total_score = min(30.0, total_score) when the critical types scored 0
MetadataCap(total_score, types_raw) ==
    IF types_raw = 0 THEN Min(Pts(METADATA_CAP) * 100, total_score) ELSE total_score

\* MetadataDetector.analyze in a process that iterates CRITICAL_TYPES in `order`
MetadataAnalyzeIn(p, order) ==
    LET types_try == Try("metadata.critical_types", analyze_critical_types(p, order),
                         "Critical Schema Types", CRITICAL_TYPES_WEIGHT)
        types_result == Outcome(types_try)
        tries == <<
            Try("metadata.presence", analyze_presence(p, types_result.raw_score > 0),
                "Schema Presence", SCHEMA_PRESENCE_WEIGHT),
            types_try,
            Try("metadata.entity_depth", analyze_entity_depth(p),
                "Entity Depth", ENTITY_DEPTH_WEIGHT) >>
        breakdown == BreakdownOf(tries)
        total_score == SumSeq(breakdown, "weighted_score")
    IN  DetectorResult("metadata_schema",
                       MetadataCap(total_score, types_result.raw_score),
                       ConfigWeight("metadata_schema", METADATA_WEIGHT),
                       breakdown, ErrorsOf(tries))

MetadataAnalyze(p) == MetadataAnalyzeIn(p, set_order)

-----------------------------------------------------------------------------
(* Layer 3: AEOStructureDetector *)

AEO_WEIGHT == 18
RULE_60_WEIGHT == 20
INTERROGATIVE_H2_WEIGHT == 15
HEADING_STRUCTURE_WEIGHT == 15
TEXT_WALLS_WEIGHT == 10
SENTENCE_LENGTH_WEIGHT == 15
LOGICAL_CONNECTORS_WEIGHT == 15
GENERIC_HEADERS_WEIGHT == 10

MIN_WORDS_PER_H2 == 80
MAX_WORDS_PER_H2 == 350
MIN_LOGICAL_CONNECTORS == 3

\* The <p> elements at the top of the page, in document order: the short
\* opening paragraph if there is one (9 words), then the first paragraph of
\* at least 10 words (60 words, or 61 when it is too long)
LeadParagraphs(p) ==
    (IF p.opening = "none" THEN <<>>
     ELSE <<[words |-> 9, has_definition |-> p.opening = "definition",
             has_action_verb |-> FALSE, has_numeric_data |-> FALSE,
             has_named_entities |-> FALSE, is_narrative |-> FALSE]>>)
    \o (IF p.first_p
        THEN <<[words |-> IF p.is_too_long THEN 61 ELSE 60,
                has_definition |-> p.has_definition,
                has_action_verb |-> p.has_action_verb,
                has_numeric_data |-> p.has_numeric_data,
                has_named_entities |-> p.has_named_entities,
                is_narrative |-> p.is_narrative]>>
        ELSE <<>>)

\* len(text.split()) >= min_words, with min_words = 10
IsSubstantive(paragraph) == paragraph.words >= 10

\* text_processing.extract_substantive_paragraphs(html, min_words=10)
extract_substantive_paragraphs(paragraphs) == SelectSeq(paragraphs, IsSubstantive)

\* A lead counted as factual on a single signal
AnyFactualSignal(paragraph) ==
    paragraph.has_action_verb \/ paragraph.has_numeric_data \/ paragraph.has_named_entities

\* factual_signals = sum([has_action_verb, has_numeric_data, has_named_entities]);
\* is_factual_lead = factual_signals >= 2
is_factual_lead(paragraph) ==
    LET factual_signals == (IF paragraph.has_action_verb THEN 1 ELSE 0)
                           + (IF paragraph.has_numeric_data THEN 1 ELSE 0)
                           + (IF paragraph.has_named_entities THEN 1 ELSE 0)
    IN  factual_signals >= 2

analyze_rule_of_60(p) ==
    LET substantive_paragraphs == extract_substantive_paragraphs(LeadParagraphs(p))
        first_p_text == substantive_paragraphs[1]
        has_definition == first_p_text.has_definition
        is_narrative == first_p_text.is_narrative
        is_too_long == first_p_text.words > 60
    IN  IF substantive_paragraphs = <<>>
        THEN ScoreBreakdown("Rule of 60 (Answer First)", 0, RULE_60_WEIGHT,
                <<"Add an introductory paragraph starting with a direct definition.">>)
        ELSE IF has_definition /\ ~is_narrative
        THEN ScoreBreakdown("Rule of 60 (Answer First)", Pts(100), RULE_60_WEIGHT, <<>>)
        ELSE IF is_factual_lead(first_p_text) /\ ~is_narrative
        THEN ScoreBreakdown("Rule of 60 (Answer First)", Pts(80), RULE_60_WEIGHT,
                IF ~has_definition
                THEN <<"To reach 100: consider adding an explicit definition.">>
                ELSE <<>>)
        ELSE IF is_narrative
        THEN ScoreBreakdown("Rule of 60 (Answer First)", Pts(40), RULE_60_WEIGHT,
                <<"Remove the narrative hook.">>)
        ELSE IF is_too_long
        THEN ScoreBreakdown("Rule of 60 (Answer First)", 0, RULE_60_WEIGHT,
                <<"Break the first paragraph.">>)
        ELSE ScoreBreakdown("Rule of 60 (Answer First)", Pts(30), RULE_60_WEIGHT,
                <<"Start with a direct definition or a factual statement.">>)

\* len(h2_texts)
H2Count(p) == p.h2_plain + p.h2_question + p.h2_generic

analyze_interrogative_h2s(p) ==
    LET total_h2s == H2Count(p)
        interrogative_count == p.h2_question
        \* interrogative_ratio >= 0.3 and >= 0.1, cross-multiplied
        raw == IF interrogative_count * 10 >= 3 * total_h2s THEN 100
               ELSE IF interrogative_count * 10 >= total_h2s THEN 85
               ELSE IF total_h2s > 0 THEN 70
               ELSE 30
    IN  IF total_h2s = 0
        THEN ScoreBreakdown("Interrogative H2s", Pts(30), INTERROGATIVE_H2_WEIGHT,
                <<"Add H2 headers to structure the content.">>)
        ELSE ScoreBreakdown("Interrogative H2s", Pts(raw), INTERROGATIVE_H2_WEIGHT,
                IF interrogative_count * 10 < total_h2s /\ total_h2s > 0
                THEN <<"Rephrase H2s as questions (ending in '?').">>
                ELSE <<>>)

\* lo <= word_count / h2_count <= hi, cross-multiplied
WordsPerH2Within(word_count, h2_count, lo, hi) ==
    lo * h2_count <= word_count /\ word_count <= hi * h2_count

analyze_heading_structure(p) ==
    LET h2_count == H2Count(p)
        base == IF h2_count = 0 THEN 20
                ELSE IF WordsPerH2Within(p.word_count, h2_count,
                                         MIN_WORDS_PER_H2, MAX_WORDS_PER_H2) THEN 100
                ELSE IF WordsPerH2Within(p.word_count, h2_count, 60, 500) THEN 85
                ELSE IF WordsPerH2Within(p.word_count, h2_count, 40, 700) THEN 70
                ELSE 50
        recs == IF base \in {20, 70, 50} THEN <<"Adjust the number of H2 headers.">>
                ELSE <<>>
        raw == IF p.h3_count > 0 /\ base < 100 THEN Min(100, base + 10) ELSE base
    IN  IF p.word_count = 0
        THEN ScoreBreakdown("Heading Structure", 0, HEADING_STRUCTURE_WEIGHT,
                <<"Add text content.">>)
        ELSE ScoreBreakdown("Heading Structure", Pts(raw), HEADING_STRUCTURE_WEIGHT, recs)

analyze_text_walls(p) ==
    ScoreBreakdown("Text Walls",
        IF p.text_walls = 0 THEN Pts(100) ELSE IF p.text_walls = 1 THEN Pts(50) ELSE 0,
        TEXT_WALLS_WEIGHT,
        IF p.text_walls > 0 THEN <<"Break up long blocks with H2/H3 headers.">> ELSE <<>>)

analyze_sentence_length(p) ==
    IF p.word_count = 0 \/ p.avg_sentence = 0
    THEN ScoreBreakdown("Sentence Length", 0, SENTENCE_LENGTH_WEIGHT, <<>>)
    ELSE IF p.avg_sentence <= 20
    THEN ScoreBreakdown("Sentence Length", Pts(100), SENTENCE_LENGTH_WEIGHT, <<>>)
    ELSE IF p.avg_sentence <= 25
    THEN ScoreBreakdown("Sentence Length", Pts(80), SENTENCE_LENGTH_WEIGHT, <<>>)
    ELSE ScoreBreakdown("Sentence Length", Pts(40), SENTENCE_LENGTH_WEIGHT,
            <<"Shorten sentences. Aim for < 20 words.">>)

analyze_logical_connectors(p) ==
    IF p.word_count = 0
    THEN ScoreBreakdown("Logical Connectors", 0, LOGICAL_CONNECTORS_WEIGHT, <<>>)
    ELSE IF p.connector_count >= MIN_LOGICAL_CONNECTORS
    THEN ScoreBreakdown("Logical Connectors", Pts(100), LOGICAL_CONNECTORS_WEIGHT, <<>>)
    ELSE IF p.connector_count > 0
    THEN ScoreBreakdown("Logical Connectors", Pts(60), LOGICAL_CONNECTORS_WEIGHT,
            <<"Use more logical connectors.">>)
    ELSE ScoreBreakdown("Logical Connectors", Pts(20), LOGICAL_CONNECTORS_WEIGHT,
            <<"Use logical connectors to link ideas.">>)

analyze_generic_headers(p) ==
    IF p.h2_generic = 0
    THEN ScoreBreakdown("Generic Headers", Pts(100), GENERIC_HEADERS_WEIGHT, <<>>)
    ELSE ScoreBreakdown("Generic Headers", 0, GENERIC_HEADERS_WEIGHT,
            [i \in 1..Min(3, p.h2_generic) |-> "Rewrite generic header."])

AEOAnalyze(p) ==
    LET tries == <<
            Try("aeo.rule_60", analyze_rule_of_60(p), "Rule of 60", RULE_60_WEIGHT),
            Try("aeo.interrogative_h2s", analyze_interrogative_h2s(p),
                "Interrogative H2s", INTERROGATIVE_H2_WEIGHT),
            Try("aeo.heading_structure", analyze_heading_structure(p),
                "Heading Structure", HEADING_STRUCTURE_WEIGHT),
            Try("aeo.text_walls", analyze_text_walls(p), "Text Walls", TEXT_WALLS_WEIGHT),
            Try("aeo.sentence_length", analyze_sentence_length(p),
                "Sentence Length", SENTENCE_LENGTH_WEIGHT),
            Try("aeo.logical_connectors", analyze_logical_connectors(p),
                "Logical Connectors", LOGICAL_CONNECTORS_WEIGHT),
            Try("aeo.generic_headers", analyze_generic_headers(p),
                "Generic Headers", GENERIC_HEADERS_WEIGHT) >>
        \* the outer except: the header and text extraction raised before any
        \* evaluator ran, the breakdown stays empty
        prepared == "aeo.prepare" \notin failing
        breakdown == IF prepared THEN BreakdownOf(tries) ELSE <<>>
        errors == IF prepared THEN ErrorsOf(tries) ELSE <<"aeo.prepare">>
        total_score == SumSeq(breakdown, "weighted_score")
    IN  DetectorResult("aeo_structure", total_score,
                       ConfigWeight("aeo_structure", AEO_WEIGHT), breakdown, errors)

-----------------------------------------------------------------------------
(* Layer 6: EntityDetector *)

ENTITY_WEIGHT == 8
POWER_LEAD_WEIGHT == 40
TITLE_ENTITY_WEIGHT == 30
ENTITY_DENSITY_WEIGHT == 30

analyze_power_lead(p) ==
    IF ~p.title
    THEN ScoreBreakdown("Power Lead (Entity in Lead)", Pts(50), POWER_LEAD_WEIGHT,
            <<"Add a clear H1 header with the main entity.">>)
    ELSE IF ~p.lead_entities
    THEN ScoreBreakdown("Power Lead (Entity in Lead)", Pts(60), POWER_LEAD_WEIGHT,
            <<"Use a title with specific terms (brand, product, concept).">>)
    ELSE IF p.found_ratio >= 80 /\ p.has_declarative
    THEN ScoreBreakdown("Power Lead (Entity in Lead)", Pts(100), POWER_LEAD_WEIGHT, <<>>)
    ELSE IF p.found_ratio >= 50
    THEN ScoreBreakdown("Power Lead (Entity in Lead)", Pts(80), POWER_LEAD_WEIGHT,
            IF ~p.has_declarative
            THEN <<"Add a declarative verb (is, offers, provides) in the opening sentence.">>
            ELSE <<>>)
    ELSE IF p.found_ratio > 0
    THEN ScoreBreakdown("Power Lead (Entity in Lead)", Pts(60), POWER_LEAD_WEIGHT,
            <<"Include more key terms from the title in the first sentence.">>)
    ELSE ScoreBreakdown("Power Lead (Entity in Lead)", Pts(30), POWER_LEAD_WEIGHT,
            <<"IMPORTANT: Start content by explicitly mentioning the title entities.">>)

analyze_title_entities(p) ==
    LET factors == (IF p.has_number THEN 20 ELSE 0)
                   + (IF p.has_year THEN 15 ELSE 0)
                   + (IF p.has_specific_terms THEN 25 ELSE 0)
                   + (IF p.brand_like THEN 30 ELSE 0)
                   + (IF p.long_title THEN 10 ELSE 0)
        raw == Min(100, factors)
        missing == ~p.has_number \/ ~p.has_specific_terms \/ ~p.brand_like
    IN  IF ~p.title
        THEN ScoreBreakdown("Title Entities", 0, TITLE_ENTITY_WEIGHT,
                <<"Add a clear H1 header.">>)
        ELSE ScoreBreakdown("Title Entities", Pts(raw), TITLE_ENTITY_WEIGHT,
                IF raw < 100 /\ missing THEN <<"Strengthen the title.">> ELSE <<>>)

analyze_entity_density(p) ==
    IF ~p.title \/ p.word_count = 0
    THEN ScoreBreakdown("Entity Density", Pts(50), ENTITY_DENSITY_WEIGHT,
            <<"Ensure content has consistent entity mentions.">>)
    ELSE IF ~p.density_entities
    THEN ScoreBreakdown("Entity Density", Pts(60), ENTITY_DENSITY_WEIGHT,
            <<"Use more specific proper nouns (Brand, Product) in title.">>)
    ELSE IF p.avg_mentions >= 4
    THEN ScoreBreakdown("Entity Density", Pts(100), ENTITY_DENSITY_WEIGHT, <<>>)
    ELSE IF p.avg_mentions >= 2
    THEN ScoreBreakdown("Entity Density", Pts(80), ENTITY_DENSITY_WEIGHT, <<>>)
    ELSE IF p.avg_mentions >= 1
    THEN ScoreBreakdown("Entity Density", Pts(60), ENTITY_DENSITY_WEIGHT,
            <<"Reinforce key terms from the title.">>)
    ELSE ScoreBreakdown("Entity Density", Pts(30), ENTITY_DENSITY_WEIGHT,
            <<"IMPORTANT: Consistently mention title entities throughout the text.">>)

EntityAnalyze(p) ==
    LET tries == <<
            Try("entity.power_lead", analyze_power_lead(p), "Power Lead", POWER_LEAD_WEIGHT),
            Try("entity.title_entities", analyze_title_entities(p),
                "Title Entities", TITLE_ENTITY_WEIGHT),
            Try("entity.entity_density", analyze_entity_density(p),
                "Entity Density", ENTITY_DENSITY_WEIGHT) >>
        breakdown == BreakdownOf(tries)
        total_score == SumSeq(breakdown, "weighted_score")
    IN  DetectorResult("entity_identification", total_score,
                       ConfigWeight("entity_identification", ENTITY_WEIGHT),
                       breakdown, ErrorsOf(tries))

-----------------------------------------------------------------------------
(* Layer 4: EvidenceDensityDetector *)

EVIDENCE_WEIGHT == 15
CLAIMS_WEIGHT == 100

\* the ratio alone, without the low-volume cap and the full-score tier
EvidenceScoreUncapped(verified_count, total_claims) ==
    IF total_claims > 0 THEN (verified_count * Pts(100)) \div total_claims ELSE 0

\* a low-volume cap that still applies to 3 claims
EvidenceScoreCapAtThree(verified_count, total_claims) ==
    LET ratio == IF total_claims > 0
                 THEN (verified_count * Pts(100)) \div total_claims
                 ELSE 0
    IN  IF total_claims <= 3 THEN Min(ratio, Pts(60))
        ELSE IF total_claims >= 5 /\ ratio >= Pts(90) THEN Pts(100)
        ELSE ratio

\* the score of _analyze_claims as a raw_score; ratio = verified / total * 100
evidence_score(verified_count, total_claims) ==
    LET ratio == IF total_claims > 0
                 THEN (verified_count * Pts(100)) \div total_claims
                 ELSE 0
    IN  IF total_claims < 3 THEN Min(ratio, Pts(60))
        ELSE IF total_claims >= 5 /\ ratio >= Pts(90) THEN Pts(100)
        ELSE ratio

\* claims: List[Tuple[str, bool]], each sentence by what the checks read of it
claim_sentences(p) ==
    [i \in 1..p.claims[2] |->
        [marker_inline |-> i <= p.claims[1],
         context |-> IF i <= p.claims[1] THEN Uncited ELSE p.citation]]

\* is_verified = has_citation_marker or has_link_nearby
is_verified(claim) ==
    LET has_citation_marker ==
            claim.marker_inline \/ claim.context.marker_lookahead
        has_link_nearby ==
            claim.context.prefix_in_html /\ claim.context.link_in_window
    IN  has_citation_marker \/ has_link_nearby

\* verified_count = sum(1 for _, v in claims if v)
verified_count(p) ==
    LET claims == claim_sentences(p)
    IN  Cardinality({i \in DOMAIN claims : is_verified(claims[i])})

analyze_claims(p) ==
    LET claims == claim_sentences(p)
        total_claims == Len(claims)
        score == evidence_score(verified_count(p), total_claims)
    IN  IF total_claims = 0
        THEN ScoreBreakdown("Evidence Mapping", Pts(50), CLAIMS_WEIGHT,
                <<"Content is descriptive. Add data/stats to increase authority.">>)
        ELSE ScoreBreakdown("Evidence Density", score, CLAIMS_WEIGHT,
                (IF total_claims < 3 THEN <<"LOW VOLUME: Add more data points.">> ELSE <<>>)
                \o (IF score < Pts(50)
                    THEN <<"CRITICAL: Most claims lack citations.">> ELSE <<>>)
                \o (IF score < Pts(90) /\ total_claims >= 3
                    THEN <<"Add hyperlinks or [citations] to all data points.">>
                    ELSE <<>>))

EvidenceAnalyze(p) ==
    LET tries == << Try("evidence.claims", analyze_claims(p), "Evidence Mapping",
                        CLAIMS_WEIGHT) >>
        breakdown == BreakdownOf(tries)
        total_score == SumSeq(breakdown, "weighted_score")
    IN  DetectorResult("evidence_density", total_score,
                       ConfigWeight("evidence_density", EVIDENCE_WEIGHT),
                       breakdown, ErrorsOf(tries))

-----------------------------------------------------------------------------
(* The detectors below call no evaluator inside a try/except: an exception *)
(* in any of their steps leaves analyze                                     *)

\* analyze returns what it computes unless one of its steps raises
Unguarded(steps, outcome) == IF steps \cap failing # {} THEN Raised ELSE outcome

-----------------------------------------------------------------------------
(* Layer 5: AuthorityDetector *)

AUTHORITY_WEIGHT == 15
AUTHORSHIP_WEIGHT == 40
EXPERIENCE_WEIGHT == 35
TRUST_PAGES_WEIGHT == 25

authorship_verification(p) ==
    ScoreBreakdown("Authorship Verification",
        IF p.has_author THEN Pts(100) ELSE 0, AUTHORSHIP_WEIGHT,
        IF p.has_author THEN <<>> ELSE <<"Add a clear 'Written by [Name]' byline.">>)

experience_signals(p) ==
    ScoreBreakdown("Experience Signals",
        IF p.signal_count >= 3 THEN Pts(100)
        ELSE IF p.signal_count >= 1 THEN Pts(60) ELSE 0,
        EXPERIENCE_WEIGHT,
        IF p.signal_count < 3 THEN <<"Use more first-person language.">> ELSE <<>>)

\* full credit for any 3 trust pages, whatever their category
TrustPagesAnyThree(p) ==
    LET has_high_value == p.trust_high > 0
        has_basic == p.trust_basic > 0
        found == p.trust_high + p.trust_basic
    IN  ScoreBreakdown("Trust Pages",
            IF found >= 3 THEN Pts(100)
            ELSE IF has_high_value THEN Pts(70)
            ELSE IF has_basic THEN Pts(40) ELSE 0,
            TRUST_PAGES_WEIGHT, <<>>)

\* trust_pages_found: the distinct HIGH_VALUE and BASIC keywords that an href
\* of html_rendered contains
trust_pages(p) ==
    LET has_high_value == p.trust_high > 0
        has_basic == p.trust_basic > 0
        found == p.trust_high + p.trust_basic
    IN  ScoreBreakdown("Trust Pages",
            IF has_high_value /\ found >= 3 THEN Pts(100)
            ELSE IF has_high_value THEN Pts(70)
            ELSE IF has_basic THEN Pts(40) ELSE 0,
            TRUST_PAGES_WEIGHT,
            (IF ~has_high_value THEN <<"CRITICAL: Add 'About Us' and 'Our Team' pages.">>
             ELSE <<>>)
            \o (IF found < 3 THEN <<"Increase transparency by linking Editorial Guidelines.">>
                ELSE <<>>))

AuthorityAnalyze(p) ==
    LET breakdown == << authorship_verification(p), experience_signals(p), trust_pages(p) >>
        score == SumSeq(breakdown, "weighted_score")
    IN  Unguarded({"authority.authorship", "authority.experience", "authority.trust_pages"},
                  DetectorResult("eeat_authority", score, AUTHORITY_WEIGHT, breakdown, <<>>))

-----------------------------------------------------------------------------
(* Layer 8: FormattingDetector *)

FORMATTING_WEIGHT == 10
SCANNABILITY_WEIGHT == 40
BOLD_WEIGHT == 30
MEDIA_WEIGHT == 30

lists_tables_used(p) ==
    LET wall_score == IF p.long_paragraphs = 0 THEN Pts(100)
                      ELSE IF p.long_paragraphs = 1 THEN Pts(50) ELSE 0
    IN  ScoreBreakdown("Lists/Tables Used",
            IF p.valid_lists >= 1 THEN wall_score ELSE Min(Pts(50), wall_score),
            SCANNABILITY_WEIGHT,
            (IF p.valid_lists = 0 THEN <<"Add lists or tables to break up content.">>
             ELSE <<>>)
            \o (IF p.long_paragraphs > 0 THEN <<"Break paragraphs >4-5 lines.">> ELSE <<>>))

bold_highlights(p) ==
    LET bold_score == IF p.good_bolds + p.bad_bolds = 0 THEN 0
                      ELSE IF p.good_bolds >= 2 THEN 100
                      ELSE IF p.good_bolds = 1 THEN 50
                      ELSE 30
    IN  ScoreBreakdown("Bold Highlights", Pts(bold_score), BOLD_WEIGHT,
            IF bold_score < 80 THEN <<"Use bold to highlight key concepts.">> ELSE <<>>)

multimedia_content(p) ==
    LET imgs_with_alt == p.images[1]
        img_tags == p.images[2]
        total_media == img_tags + p.videos
    IN  ScoreBreakdown("Multimedia Content",
            IF total_media = 0 THEN 0
            ELSE IF img_tags = 0 THEN Pts(100)
            ELSE IF imgs_with_alt = img_tags THEN Pts(100)
            ELSE IF imgs_with_alt > 0 THEN Pts(70)
            ELSE Pts(50),
            MEDIA_WEIGHT,
            (IF total_media = 0 THEN <<"Add relevant images or video.">> ELSE <<>>)
            \o (IF img_tags > 0 /\ imgs_with_alt < img_tags
                THEN <<"Ensure all images have descriptive 'alt' text.">> ELSE <<>>))

FormattingAnalyze(p) ==
    LET breakdown == << lists_tables_used(p), bold_highlights(p), multimedia_content(p) >>
        score == SumSeq(breakdown, "weighted_score")
    IN  Unguarded({"formatting.lists", "formatting.bold", "formatting.media"},
                  DetectorResult("format_citability", score, FORMATTING_WEIGHT,
                                 breakdown, <<>>))

-----------------------------------------------------------------------------
(* Layer 7: FreshnessDetector *)

FRESHNESS_WEIGHT == 10
DATE_WEIGHT == 60
YEAR_WEIGHT == 40

\* _parse_date returns a datetime: some format of the list parses the string
Parsed(date) == date \notin {"none", "unparsable"}

\* A FreshnessDetector that subtracts without testing `if extracted_date`
SubtractionUnguarded(date) == date \in {"none", "unparsable", "aware"}

\* datetime(2026, 2, 6) - extracted_date raises TypeError when the parsed
\* datetime carries a UTC offset (format "%Y-%m-%dT%H:%M:%S%z")
SubtractionRaises(date) == date = "aware"

date_currency(p) ==
    LET date_score == IF p.date \in {"fresh", "future"} THEN 100
                      ELSE IF p.date = "aging" THEN 50
                      ELSE 0
    IN  IF Parsed(p.date)
        THEN ScoreBreakdown("Date Currency", Pts(date_score), DATE_WEIGHT,
                IF date_score < 100 THEN <<"Update content and refresh 'dateModified'.">>
                ELSE <<>>)
        ELSE ScoreBreakdown("Date Currency", 0, DATE_WEIGHT,
                <<"Ensure a publication date is present.">>)

current_year_compliant(p) ==
    ScoreBreakdown("Current Year Compliant",
        IF p.found_year THEN Pts(100) ELSE 0, YEAR_WEIGHT,
        IF p.found_year THEN <<>> ELSE <<"Include the current year in your Title or H1.">>)

FreshnessAnalyze(p) ==
    LET breakdown == << date_currency(p), current_year_compliant(p) >>
        score == SumSeq(breakdown, "weighted_score")
    IN  IF SubtractionRaises(p.date) THEN Raised
        ELSE Unguarded({"freshness.date", "freshness.year"},
                       DetectorResult("freshness", score, FRESHNESS_WEIGHT, breakdown, <<>>))

-----------------------------------------------------------------------------
(* Layer 9: LinksDetector *)

LINKS_WEIGHT == 10
EXTERNAL_LINKS_WEIGHT == 50
AUTHORITY_SOURCES_WEIGHT == 50

\* hrefs = [a.get('href', '') for a in soup.find_all('a')]
hrefs(p) ==
    [i \in 1..p.links[1] |-> [form |-> "absolute", host |-> "authority"]]
    \o [i \in 1..(p.links[2] - p.links[1]) |-> [form |-> "absolute", host |-> "other"]]
    \o [i \in 1..p.more_links.count |->
            [form |-> p.more_links.form, host |-> p.more_links.host]]

\* external_links: absolute hrefs to a host other than the page's;
\* citation_links: those whose host contains no SOCIAL_DOMAINS or
\* PARTNER_DOMAINS entry as a substring
citation_links(p) ==
    LET is_external(href) == href.form = "absolute" /\ href.host # "own"
        is_utility(href) == href.host \in {"social", "partner", "lookalike"}
        is_citation(href) == is_external(href) /\ ~is_utility(href)
    IN  SelectSeq(hrefs(p), is_citation)

external_links_found(p) ==
    LET ext_count == Len(citation_links(p))
    IN  ScoreBreakdown("External Links Found",
            IF ext_count >= 3 THEN Pts(100) ELSE IF ext_count >= 1 THEN Pts(60) ELSE 0,
            EXTERNAL_LINKS_WEIGHT,
            IF ext_count < 3 THEN <<"Add at least 2-3 links to independent sources.">>
            ELSE <<>>)

\* auth_count = len(set(authority_links_found)); the authority links of
\* hrefs(p) name distinct hosts
authority_sources_detected(p) ==
    LET is_auth(href) == href.host = "authority"
        authority_links_found == SelectSeq(citation_links(p), is_auth)
        auth_count == Len(authority_links_found)
    IN  ScoreBreakdown("Authority Sources Detected",
            IF auth_count >= 2 THEN Pts(100) ELSE IF auth_count = 1 THEN Pts(50) ELSE 0,
            AUTHORITY_SOURCES_WEIGHT,
            IF auth_count < 2 THEN <<"Link to high-authority domains.">> ELSE <<>>)

LinksAnalyze(p) ==
    LET breakdown == << external_links_found(p), authority_sources_detected(p) >>
        score == SumSeq(breakdown, "weighted_score")
    IN  Unguarded({"links.external", "links.authority"},
                  DetectorResult("links_verifiability", score, LINKS_WEIGHT, breakdown, <<>>))

-----------------------------------------------------------------------------
(* The audits explored: a request, the page behind it, the scoring-weights  *)
(* file, and the evaluation steps that raise                                *)

\* Optional[str] left out of the request body
None == "<None>"

\* Python truthiness of an Optional[str]
Truthy(v) == v # None /\ v # ""

Requests == [url : {None, "https://site.example/article"},
             content_text : {None, "", "pasted text"}]

\* What scraper.scrape does for the URL: returns the snapshot, raises
\* ScraperError, or raises something else
ScrapeOutcomes == {"ok", "scraper_error", "crash"}

\* The steps of the detectors in which an exception can be raised
Steps == {"infra.https", "infra.ssr", "infra.crawlability", "infra.speed",
          "metadata.critical_types", "metadata.presence", "metadata.entity_depth",
          "aeo.prepare", "aeo.rule_60", "aeo.interrogative_h2s",
          "aeo.heading_structure", "aeo.text_walls", "aeo.sentence_length",
          "aeo.logical_connectors", "aeo.generic_headers",
          "entity.power_lead", "entity.title_entities", "entity.entity_density",
          "evidence.claims",
          "authority.authorship", "authority.experience", "authority.trust_pages",
          "formatting.lists", "formatting.bold", "formatting.media",
          "freshness.date", "freshness.year",
          "links.external", "links.authority"}

\* The nine dimensions, in the order audit_url runs their detectors
Dimensions == <<"technical_infrastructure", "metadata_schema", "aeo_structure",
                "entity_identification", "evidence_density", "eeat_authority",
                "format_citability", "freshness", "links_verifiability">>

DimensionSet == {Dimensions[i] : i \in DOMAIN Dimensions}

\* The keys of scoring_weights.json a detector may look up: the dimensions'
\* "weight" and the sub-dimension weights of technical_infrastructure
TableKeys == DimensionSet \cup {"https", "ssr_detection", "crawlability", "render_speed"}

\* Weights an entry of the file may carry, in hundredths
WeightValues == {5, 50}

\* A file without any of the entries
EmptyTable == [k \in {} |-> 0]

\* the file with the entry for key set to w
WithEntry(table, key, w) == [k \in DOMAIN table \cup {key} |->
                                IF k = key THEN w ELSE table[k]]

\* The snapshots explored: the base pages and every well-formed page that
\* differs from one of them in a single feature
Pages ==
    BasePages
    \cup {p \in UNION {{[b EXCEPT ![f] = v] : v \in FeatureValues[f], b \in BasePages} :
                        f \in Features} : WellFormed(p)}

\* Every combination of the facts of the lead paragraphs, on the typical page
LeadPages ==
    {p \in {[TypicalPage EXCEPT !.opening = o, !.first_p = f, !.has_definition = d,
                                !.has_action_verb = a, !.has_numeric_data = n,
                                !.has_named_entities = e, !.is_narrative = r,
                                !.is_too_long = l] :
                o \in Openings, f \in BOOLEAN, d \in BOOLEAN, a \in BOOLEAN,
                n \in BOOLEAN, e \in BOOLEAN, r \in BOOLEAN, l \in BOOLEAN} :
        WellFormed(p)}

\* Every combination of linked trust pages, on the typical page
TrustPages ==
    {[TypicalPage EXCEPT !.trust_high = h, !.trust_basic = b] :
        h \in Counts, b \in Counts}

\* Every combination of robots directives and canonical link, on the typical
\* page
CrawlPages ==
    {[TypicalPage EXCEPT !.has_noindex = i, !.has_nofollow = f, !.has_none = n,
                         !.has_canonical = c] :
        i \in BOOLEAN, f \in BOOLEAN, n \in BOOLEAN, c \in BOOLEAN}

\* A scenario is a snapshot, a scrape outcome, a weights file, a set of
\* raising steps and the set iteration order of the serving process
Scenario(p) == [page |-> p, scrape |-> "ok", table |-> EmptyTable, failing |-> {},
                order |-> CHOOSE o \in IterationOrders : o[1] = "Article"]

\* The scenarios with one more fault than sc
Faults(sc) ==
    {[sc EXCEPT !.scrape = o] : o \in ScrapeOutcomes}
    \cup {[sc EXCEPT !.table = WithEntry(sc.table, k, w)] : k \in TableKeys, w \in WeightValues}
    \cup {[sc EXCEPT !.failing = sc.failing \cup {st}] : st \in Steps}

RECURSIVE Faulty(_)
\* The audits of a base page that meet at most n faults
Faulty(n) ==
    IF n = 0 THEN {Scenario(b) : b \in BasePages}
    ELSE LET prev == Faulty(n - 1)
         IN  prev \cup UNION {Faults(sc) : sc \in prev}

Scenarios ==
    {Scenario(p) : p \in Pages \cup LeadPages \cup TrustPages \cup CrawlPages}
    \cup Faulty(MaxFaults)
    \cup {[Scenario(b) EXCEPT !.order = o] : b \in BasePages, o \in IterationOrders}

\* len(html.replace(" ", "").replace("\n", "")): spaces and newlines are
\* removed, every other character counts
StrippedLength(html) == html.chars + html.tabs

\* PlaywrightScraper._detect_ssr; increase_ratio < 1.5 is cross-multiplied
detect_ssr(html_raw, html_rendered) ==
    LET raw_length == StrippedLength(html_raw)
        rendered_length == StrippedLength(html_rendered)
        ssr_indicators == (IF html_raw.paragraphs > 2 THEN 1 ELSE 0)
                          + (IF html_raw.headings > 1 THEN 1 ELSE 0)
                          + (IF html_raw.container THEN 1 ELSE 0)
        has_ssr_indicators == ssr_indicators >= 2
        content_stable == 2 * rendered_length < 3 * raw_length
    IN  IF raw_length = 0 THEN FALSE ELSE has_ssr_indicators \/ content_stable

\* The PageData that PlaywrightScraper.scrape returns for the page
Scraped(p) == PageData(p, p.html, detect_ssr(p.html[1], p.html[2]))

\* The snapshot audit_url builds around a pasted text: the markup is
\* <h1>Analysis</h1> followed by the text in one element (its length is that
\* of the text, every sentence of the text stands unbroken in that element,
\* and an anchor near a sentence is an anchor in it), and the transport facts
\* are assumed
TextModePage(p) ==
    LET assumed == [p EXCEPT !.is_https = TRUE, !.load_time_ms = 0,
              !.title = TRUE, !.lead_entities = TRUE, !.density_entities = TRUE,
              !.has_number = FALSE, !.has_year = FALSE, !.has_specific_terms = FALSE,
              !.brand_like = TRUE, !.long_title = FALSE,
              !.citation.prefix_in_html = TRUE,
              !.citation.link_in_element =
                    p.citation.link_in_element \/ p.citation.link_in_window]
    IN  PageData(assumed,
                 <<Markup(6000, 0, 1, 1, FALSE), Markup(6000, 0, 0, 0, FALSE)>>, TRUE)

-----------------------------------------------------------------------------
(* audit_url (main.py) *)

NoResponse == [status_code |-> 0, total_score |-> 0, dimensions |-> <<>>,
               recommendations |-> <<>>, detector_results |-> <<>>]

\* raise HTTPException(status_code=...), or an exception FastAPI turns into 500
HTTPError(code) == [NoResponse EXCEPT !.status_code = code]

\* The scrape() calls that run on the one shared scraper
Callers == {"first", "second"}

\* The lifespan of the application, which calls scraper.close() at shutdown
Lifespan == "lifespan"

\* self._playwright = None
\* self._browser = None
NewScraper == [playwright |-> None, browser |-> None]

\* Nothing is started: no driver, no browser, no context; launched counts
\* the browsers launched since the scraper was built
NoResources == [drivers |-> {}, browsers |-> {}, contexts |-> {}, launched |-> 0]

\* A call that has not begun: browser is its local variable, outcome is
\* what it returns or raises
NotCalled == [pc |-> "call", browser |-> None, outcome |-> None]

Init ==
    /\ request \in Requests
    /\ weights_ok \in BOOLEAN
    /\ \E sc \in Scenarios :
          /\ web = [page |-> sc.page, scrape |-> sc.scrape]
          /\ weights_table = sc.table
          /\ failing = sc.failing
          /\ set_order = sc.order
    /\ pc = "acquire"
    /\ page_data = PageData(EmptyPage, EmptyPage.html, TRUE)
    /\ detector_results = <<>>
    /\ all_recommendations = <<>>
    /\ response = NoResponse
    /\ scraper = NewScraper
    /\ resources = NoResources
    /\ calls = [c \in Callers \cup {Lifespan} |-> NotCalled]

\* the request is answered without running any detector
Abort(code) ==
    /\ response' = HTTPError(code)
    /\ pc' = "done"
    /\ UNCHANGED <<request, weights_ok, weights_table, set_order, web, failing, page_data,
                   detector_results, all_recommendations>>
    /\ UNCHANGED scraper_vars

\* the snapshot is ready, the detectors run next
Acquired(snapshot) ==
    /\ page_data' = snapshot
    /\ pc' = "infra"
    /\ UNCHANGED <<request, weights_ok, weights_table, set_order, web, failing,
                   detector_results, all_recommendations, response>>
    /\ UNCHANGED scraper_vars

\* if request.content_text: page_data = PageData(...)
AcquireText ==
    /\ pc = "acquire"
    /\ Truthy(request.content_text)
    /\ Acquired(TextModePage(web.page))

\* elif request.url: page_data = await scraper.scrape(request.url)
AcquireScrape ==
    /\ pc = "acquire"
    /\ ~Truthy(request.content_text) /\ Truthy(request.url)
    /\ web.scrape = "ok"
    /\ Acquired(Scraped(web.page))

\* except ScraperError: raise HTTPException(status_code=400)
ScrapeFails ==
    /\ pc = "acquire"
    /\ ~Truthy(request.content_text) /\ Truthy(request.url)
    /\ web.scrape = "scraper_error"
    /\ Abort(400)

\* except Exception: raise HTTPException(status_code=500)
ScrapeCrashes ==
    /\ pc = "acquire"
    /\ ~Truthy(request.content_text) /\ Truthy(request.url)
    /\ web.scrape = "crash"
    /\ Abort(500)

\* else: raise HTTPException(status_code=400) inside the try, which the
\* except Exception clause catches and re-raises as 500
AcquireNothing ==
    /\ pc = "acquire"
    /\ ~Truthy(request.content_text) /\ ~Truthy(request.url)
    /\ Abort(500)

\* for breakdown in result.breakdown: all_recommendations.extend(...)
RecommendationsOf(result) ==
    Flatten([i \in DOMAIN result.breakdown |-> result.breakdown[i].recommendations])

\* a detector that stores the markup it cleaned for its own analysis back
\* into the snapshot
ScopedInPlace(p) == [p EXCEPT !.html = <<p.html[1], NoMarkup>>]

\* The PageData object after detector.analyze(page_data) was handed it: the
\* detectors bind its fields to locals (html = page_data.html_rendered, ...)
\* and assign to none of them
handed_back(p) == p

\* try: result = await detector.analyze(page_data); detector_results.append(result);
\*      all_recommendations.extend(...)
\* except Exception: print(...)
Collect(outcome, next) ==
    /\ IF outcome.raised
       THEN UNCHANGED <<detector_results, all_recommendations>>
       ELSE /\ detector_results' = Append(detector_results, outcome.result)
            /\ all_recommendations' =
                   all_recommendations \o RecommendationsOf(outcome.result)
    /\ page_data' = handed_back(page_data)
    /\ pc' = next
    /\ UNCHANGED <<request, weights_ok, weights_table, set_order, web, failing, response>>
    /\ UNCHANGED scraper_vars

\* An audit that runs the infrastructure detector in both modes
InfrastructureAlways(req) == TRUE

\* if not request.content_text: the infrastructure detector runs
InfrastructureApplies(req) == ~Truthy(req.content_text)

RunInfrastructure ==
    /\ pc = "infra"
    /\ IF InfrastructureApplies(request)
       THEN Collect(InfrastructureAnalyze(page_data), "metadata")
       ELSE /\ pc' = "metadata"
            /\ UNCHANGED <<request, weights_ok, weights_table, set_order, web, failing, page_data,
                           detector_results, all_recommendations, response>>
            /\ UNCHANGED scraper_vars

RunMetadata == pc = "metadata" /\ Collect(MetadataAnalyze(page_data), "aeo")

RunAEO == pc = "aeo" /\ Collect(AEOAnalyze(page_data), "entity")

RunEntity == pc = "entity" /\ Collect(EntityAnalyze(page_data), "evidence")

RunEvidence == pc = "evidence" /\ Collect(EvidenceAnalyze(page_data), "authority")

RunAuthority == pc = "authority" /\ Collect(AuthorityAnalyze(page_data), "formatting")

RunFormatting == pc = "formatting" /\ Collect(FormattingAnalyze(page_data), "freshness")

RunFreshness == pc = "freshness" /\ Collect(FreshnessAnalyze(page_data), "links")

RunLinks == pc = "links" /\ Collect(LinksAnalyze(page_data), "respond")

\* DimensionScore(name=r.dimension, score=r.score, weight=r.weight,
\*                contribution=r.contribution, status=r.status)
DimensionScore(r) ==
    [name |-> r.dimension, score |-> r.score, weight |-> r.weight,
     contribution |-> r.contribution, status |-> status(r.score)]

\* A truncation that keeps the last five recommendations
LastRecommendations(recs) == SubSeq(recs, Len(recs) - Min(5, Len(recs)) + 1, Len(recs))

\* top_recommendations = all_recommendations[:5]
top_recommendations(recs) == Prefix(recs, 5)

\* AuditResponse(total_score=..., dimensions=..., recommendations=..., ...)
AuditResponse(results, recs) ==
    [status_code |-> 200,
     total_score |-> SumSeq(results, "contribution"),
     dimensions |-> [i \in DOMAIN results |-> DimensionScore(results[i])],
     recommendations |-> top_recommendations(recs),
     detector_results |-> results]

\* Steps 3 and 4 of audit_url. settings.scoring_weights is read outside any
\* try, and AuditResponse validates total_score: an exception in either
\* leaves the handler and FastAPI answers 500
Respond ==
    /\ pc = "respond"
    /\ LET report == AuditResponse(detector_results, all_recommendations)
       IN  response' = IF weights_ok /\ ValidTotal(report.total_score)
                       THEN report
                       ELSE HTTPError(500)
    /\ pc' = "done"
    /\ UNCHANGED <<request, weights_ok, weights_table, set_order, web, failing, page_data,
                   detector_results, all_recommendations>>
    /\ UNCHANGED scraper_vars

Next ==
    \/ AcquireText
    \/ AcquireScrape
    \/ ScrapeFails
    \/ ScrapeCrashes
    \/ AcquireNothing
    \/ RunInfrastructure
    \/ RunMetadata
    \/ RunAEO
    \/ RunEntity
    \/ RunEvidence
    \/ RunAuthority
    \/ RunFormatting
    \/ RunFreshness
    \/ RunLinks
    \/ Respond

Spec == Init /\ [][Next]_vars

-----------------------------------------------------------------------------
(* The shared scraper: backend/src/scrapers/playwright_scraper.py.  A call  *)
(* gives way to the other calls at each await and nowhere else, so each    *)
(* action runs from one await to the next.                                 *)

\* the variables of audit_url, left alone by the steps of the scraper
audit_vars == <<request, weights_ok, weights_table, set_order, web, failing, pc, page_data,
                detector_results, all_recommendations, response>>

\* An awaited browser operation completes or raises
Awaited == {"ok", "raises"}

\* The URLs handed to scrape, as <<protocol, rest>>
Urls == {<<"https://", "site.example/article">>, <<"ftp://", "site.example/article">>}

\* url.startswith(("http://", "https://"))
ValidProtocol(url) == url[1] \in {"http://", "https://"}

\* What the try block of scrape meets: the rendered page, a failed
\* navigation, a blocked title or body, a timeout of page.goto
PageLoads == {"rendered", "navigation", "blocked", "timeout"}

\* the call returns the value or raises the exception
Ends(c, outcome) == calls' = [calls EXCEPT ![c].pc = "done", ![c].outcome = outcome]

\* the contexts of a browser end with the browser
ContextsOutside(browser) == {x \in resources.contexts : x.browser # browser}

\* if not url.startswith(...): raise ScraperError
\* browser = await self._ensure_browser(), up to its first await:
\* if self._browser is None: ... async_playwright().start()
Scrape(c) ==
    /\ calls[c].pc = "call"
    /\ calls[Lifespan].pc = "call"
    /\ \E url \in Urls :
          IF ~ValidProtocol(url)
          THEN Ends(c, "ScraperError")
          ELSE IF scraper.browser = None
               THEN calls' = [calls EXCEPT ![c].pc = "start"]
               ELSE calls' = [calls EXCEPT ![c].pc = "new_context",
                                           ![c].browser = scraper.browser]
    /\ UNCHANGED <<scraper, resources>>
    /\ UNCHANGED audit_vars

\* self._playwright = await async_playwright().start()
StartPlaywright(c) ==
    /\ calls[c].pc = "start"
    /\ \E r \in Awaited :
          IF r = "ok"
          THEN /\ resources' = [resources EXCEPT !.drivers = @ \cup {c}]
               /\ scraper' = [scraper EXCEPT !.playwright = c]
               /\ calls' = [calls EXCEPT ![c].pc = "launch"]
          ELSE /\ Ends(c, "Exception")
               /\ UNCHANGED <<scraper, resources>>
    /\ UNCHANGED audit_vars

\* self._browser = await self._playwright.chromium.launch(...)
\* return self._browser
LaunchBrowser(c) ==
    /\ calls[c].pc = "launch"
    /\ \E r \in Awaited :
          IF r = "ok"
          THEN /\ resources' = [resources EXCEPT !.browsers = @ \cup {c},
                                                 !.launched = @ + 1]
               /\ scraper' = [scraper EXCEPT !.browser = c]
               /\ calls' = [calls EXCEPT ![c].pc = "new_context", ![c].browser = c]
          ELSE /\ Ends(c, "Exception")
               /\ UNCHANGED <<scraper, resources>>
    /\ UNCHANGED audit_vars

\* context = await browser.new_context(...)
NewContext(c) ==
    /\ calls[c].pc = "new_context"
    /\ \E r \in Awaited :
          IF r = "ok" /\ calls[c].browser \in resources.browsers
          THEN /\ resources' = [resources EXCEPT !.contexts =
                                    @ \cup {[call |-> c, browser |-> calls[c].browser]}]
               /\ calls' = [calls EXCEPT ![c].pc = "new_page"]
          ELSE /\ Ends(c, "Exception")
               /\ UNCHANGED resources
    /\ UNCHANGED scraper
    /\ UNCHANGED audit_vars

\* page = await context.new_page()
NewPage(c) ==
    /\ calls[c].pc = "new_page"
    /\ \E r \in Awaited :
          IF r = "ok"
          THEN calls' = [calls EXCEPT ![c].pc = "load"]
          ELSE Ends(c, "Exception")
    /\ UNCHANGED <<scraper, resources>>
    /\ UNCHANGED audit_vars

\* try: ... return PageData(...)
\* except Exception as e: raise ScraperError(url, "Failed to load page: ...")
Load(c) ==
    /\ calls[c].pc = "load"
    /\ \E r \in PageLoads :
          calls' = [calls EXCEPT ![c].pc = "finally",
                                 ![c].outcome = IF r = "rendered" THEN "PageData"
                                                ELSE "ScraperError"]
    /\ UNCHANGED <<scraper, resources>>
    /\ UNCHANGED audit_vars

\* finally: await context.close()
CloseContext(c) ==
    /\ calls[c].pc = "finally"
    /\ resources' = [resources EXCEPT !.contexts = {x \in @ : x.call # c}]
    /\ calls' = [calls EXCEPT ![c].pc = "done"]
    /\ UNCHANGED scraper
    /\ UNCHANGED audit_vars

\* lifespan, after the yield: await scraper.close()
\* if self._browser: await self._browser.close(); self._browser = None
CloseBrowser ==
    /\ calls[Lifespan].pc = "call"
    /\ \A c \in Callers : calls[c].pc \in {"call", "done"}
    /\ IF scraper.browser # None
       THEN /\ resources' = [resources EXCEPT !.browsers = @ \ {scraper.browser},
                                              !.contexts = ContextsOutside(scraper.browser)]
            /\ scraper' = [scraper EXCEPT !.browser = None]
       ELSE UNCHANGED <<scraper, resources>>
    /\ calls' = [calls EXCEPT ![Lifespan].pc = "stop"]
    /\ UNCHANGED audit_vars

\* if self._playwright: await self._playwright.stop(); self._playwright = None
\* the browser a driver launched ends with the driver
StopPlaywright ==
    /\ calls[Lifespan].pc = "stop"
    /\ IF scraper.playwright # None
       THEN /\ resources' = [resources EXCEPT !.drivers = @ \ {scraper.playwright},
                                              !.browsers = @ \ {scraper.playwright},
                                              !.contexts = ContextsOutside(scraper.playwright)]
            /\ scraper' = [scraper EXCEPT !.playwright = None]
       ELSE UNCHANGED <<scraper, resources>>
    /\ calls' = [calls EXCEPT ![Lifespan].pc = "done"]
    /\ UNCHANGED audit_vars

\* scraper = PlaywrightScraper(); the requests of the application call scrape
ScraperInit ==
    /\ request = [url |-> "https://site.example/article", content_text |-> None]
    /\ weights_ok = TRUE
    /\ web = [page |-> TypicalPage, scrape |-> "ok"]
    /\ weights_table = Scenario(TypicalPage).table
    /\ failing = Scenario(TypicalPage).failing
    /\ set_order = Scenario(TypicalPage).order
    /\ pc = "acquire"
    /\ page_data = PageData(EmptyPage, EmptyPage.html, TRUE)
    /\ detector_results = <<>>
    /\ all_recommendations = <<>>
    /\ response = NoResponse
    /\ scraper = NewScraper
    /\ resources = NoResources
    /\ calls = [c \in Callers \cup {Lifespan} |-> NotCalled]

ScraperNext ==
    \/ \E c \in Callers : Scrape(c)
    \/ \E c \in Callers : StartPlaywright(c)
    \/ \E c \in Callers : LaunchBrowser(c)
    \/ \E c \in Callers : NewContext(c)
    \/ \E c \in Callers : NewPage(c)
    \/ \E c \in Callers : Load(c)
    \/ \E c \in Callers : CloseContext(c)
    \/ CloseBrowser
    \/ StopPlaywright

ScraperSpec == ScraperInit /\ [][ScraperNext]_vars

-----------------------------------------------------------------------------
(* Vocabulary of the properties *)

\* The audit returned a report
Report == response.status_code = 200

\* The snapshot was acquired, so the detectors run
AcquisitionSucceeds ==
    Truthy(request.content_text) \/ (Truthy(request.url) /\ web.scrape = "ok")

\* Position of a dimension in the declared order
IndexOf(d) == CHOOSE i \in DOMAIN Dimensions : Dimensions[i] = d

\* The detector of a dimension, applied to a snapshot
Analyze(d, p) ==
    CASE d = "technical_infrastructure" -> InfrastructureAnalyze(p)
      [] d = "metadata_schema" -> MetadataAnalyze(p)
      [] d = "aeo_structure" -> AEOAnalyze(p)
      [] d = "entity_identification" -> EntityAnalyze(p)
      [] d = "evidence_density" -> EvidenceAnalyze(p)
      [] d = "eeat_authority" -> AuthorityAnalyze(p)
      [] d = "format_citability" -> FormattingAnalyze(p)
      [] d = "freshness" -> FreshnessAnalyze(p)
      [] d = "links_verifiability" -> LinksAnalyze(p)

\* The evaluators of each detector, in the order of their breakdown entries
EvaluatorSteps ==
    [technical_infrastructure |->
        <<"infra.https", "infra.ssr", "infra.crawlability", "infra.speed">>,
     metadata_schema |->
        <<"metadata.presence", "metadata.critical_types", "metadata.entity_depth">>,
     aeo_structure |->
        <<"aeo.rule_60", "aeo.interrogative_h2s", "aeo.heading_structure",
          "aeo.text_walls", "aeo.sentence_length", "aeo.logical_connectors",
          "aeo.generic_headers">>,
     entity_identification |->
        <<"entity.power_lead", "entity.title_entities", "entity.entity_density">>,
     evidence_density |-> <<"evidence.claims">>,
     eeat_authority |->
        <<"authority.authorship", "authority.experience", "authority.trust_pages">>,
     format_citability |-> <<"formatting.lists", "formatting.bold", "formatting.media">>,
     freshness |-> <<"freshness.date", "freshness.year">>,
     links_verifiability |-> <<"links.external", "links.authority">>]

\* The hardcoded class attribute `weight` of each detector
DefaultWeight ==
    [technical_infrastructure |-> INFRA_WEIGHT, metadata_schema |-> METADATA_WEIGHT,
     aeo_structure |-> AEO_WEIGHT, entity_identification |-> ENTITY_WEIGHT,
     evidence_density |-> EVIDENCE_WEIGHT, eeat_authority |-> AUTHORITY_WEIGHT,
     format_citability |-> FORMATTING_WEIGHT, freshness |-> FRESHNESS_WEIGHT,
     links_verifiability |-> LINKS_WEIGHT]

\* The names _create_error_breakdown is called with
ErrorNames ==
    {"HTTPS Security", "Rendering Mode", "Crawlability", "Page Load Speed",
     "Schema Presence", "Critical Schema Types", "Entity Depth",
     "Rule of 60", "Interrogative H2s", "Heading Structure", "Text Walls",
     "Sentence Length", "Logical Connectors", "Generic Headers",
     "Power Lead", "Title Entities", "Entity Density", "Evidence Mapping"}

\* A breakdown entry that stands for a failed evaluator
IsSynthetic(b) ==
    /\ b.raw_score = 0
    /\ b.weighted_score = 0
    /\ Len(b.recommendations) = 1
    /\ \E n \in ErrorNames :
          b.recommendations[1] = "Manual verification required: " \o n \o "."

\* The evaluator behind breakdown entry k of dimension d fails on the snapshot
EvaluatorFails(d, k, p) ==
    \/ EvaluatorSteps[d][k] \in failing
    \/ d = "freshness" /\ k = 1 /\ SubtractionRaises(p.date)

\* The dimensions whose detector audit_url invokes for the request
Applicable ==
    {d \in DimensionSet : d = "technical_infrastructure" => ~Truthy(request.content_text)}

\* The value of pc at which audit_url is about to invoke each detector
StageOf ==
    [technical_infrastructure |-> "infra", metadata_schema |-> "metadata",
     aeo_structure |-> "aeo", entity_identification |-> "entity",
     evidence_density |-> "evidence", eeat_authority |-> "authority",
     format_citability |-> "formatting", freshness |-> "freshness",
     links_verifiability |-> "links"]

\* The names of the reported dimensions
Reported(resp) == {resp.dimensions[i].name : i \in DOMAIN resp.dimensions}

\* The recommendations of all breakdown entries of a list of results, in
\* list order and, within a result, in breakdown order
RecommendationsIn(results) ==
    Flatten([i \in DOMAIN results |-> RecommendationsOf(results[i])])

\* The names of a list of dimensions follow the declared order
InDeclaredOrder(names) ==
    \A i, j \in DOMAIN names : i < j => IndexOf(names[i]) < IndexOf(names[j])

-----------------------------------------------------------------------------
(* Properties *)

\* C1: in each of the nine detectors, when a single sub-metric evaluator fails,
\* analyze still returns a result in which the failed evaluator is a synthetic
\* entry (raw 0, weighted 0, one "Manual verification required"
\* recommendation) and every later evaluator has still run.
C1_SingleFailureIsolated ==
    \A d \in Applicable : \A k \in DOMAIN EvaluatorSteps[d] :
            (/\ pc = StageOf[d]
             /\ EvaluatorFails(d, k, page_data)
             /\ \A j \in DOMAIN EvaluatorSteps[d] :
                    j # k => ~EvaluatorFails(d, j, page_data))
            => LET out == Analyze(d, page_data)
               IN  /\ ~out.raised
                   /\ Len(out.result.breakdown) = Len(EvaluatorSteps[d])
                   /\ IsSynthetic(out.result.breakdown[k])
                   /\ \A j \in DOMAIN out.result.breakdown :
                          j > k => ~IsSynthetic(out.result.breakdown[j])

\* C2: when a detector's analyze raises, its dimension is left out of the
\* report (no dimension entry, no detector result, no recommendation), the
\* other applicable detectors still run, and the audit returns a report whose
\* total_score is the sum of the remaining contributions.
C2_RaisingDetectorOmitted ==
    (/\ pc = "done"
     /\ AcquisitionSucceeds
     /\ \E d \in Applicable : Analyze(d, page_data).raised)
    => /\ Report
       /\ Reported(response) = {d \in Applicable : ~Analyze(d, page_data).raised}
       /\ Len(response.detector_results) = Len(response.dimensions)
       /\ response.recommendations =
              Prefix(RecommendationsIn(response.detector_results), 5)
       /\ response.total_score = SumSeq(response.dimensions, "contribution")

\* Every breakdown entry has 0 <= raw_score <= 100 and
\* weighted_score = raw_score * weight
EntriesConsistent(r) ==
    \A i \in DOMAIN r.breakdown :
        /\ 0 <= r.breakdown[i].raw_score
        /\ r.breakdown[i].raw_score <= Pts(100)
        /\ r.breakdown[i].weighted_score = r.breakdown[i].raw_score * r.breakdown[i].weight

\* C3 (as stated): for every result a detector returns, each breakdown entry
\* has 0 <= raw_score <= 100 and weighted_score = raw_score * weight, and the
\* dimension score equals the sum of the entries' weighted_score.
C3_ScoreIsWeightedSum ==
    \A n \in DOMAIN detector_results :
        LET r == detector_results[n]
        IN  /\ EntriesConsistent(r)
            /\ r.score = SumSeq(r.breakdown, "weighted_score")

\* C3 (amended): the entries are consistent and the dimension score equals the
\* sum of the entries' weighted_score, except that the metadata score is the
\* smaller of that sum and 30 when Critical Schema Types has raw score 0.
C3_ScoreIsWeightedSumOrCapped ==
    \A n \in DOMAIN detector_results :
        LET r == detector_results[n]
            sum == SumSeq(r.breakdown, "weighted_score")
        IN  /\ EntriesConsistent(r)
            /\ r.score = IF r.dimension = "metadata_schema"
                            /\ r.breakdown[2].raw_score = 0
                            /\ sum > Pts(30) * 100
                         THEN Pts(30) * 100
                         ELSE sum

\* A report whose metadata score is the cap, below the sum of its entries
C3_Witness ==
    /\ Report
    /\ "metadata.critical_types" \notin failing
    /\ \E n \in DOMAIN response.detector_results :
          LET r == response.detector_results[n]
          IN  /\ r.dimension = "metadata_schema"
              /\ r.score = Pts(30) * 100
              /\ r.score < SumSeq(r.breakdown, "weighted_score")
              /\ SumSeq(r.breakdown, "weighted_score") = Pts(60) * 100

\* C4: in every report each dimension has contribution = score * weight, and
\* total_score is the sum of the contributions of the reported dimensions.
C4_ContributionsAndTotal ==
    Report =>
        /\ \A i \in DOMAIN response.dimensions :
              response.dimensions[i].contribution =
                  response.dimensions[i].score * response.dimensions[i].weight
        /\ response.total_score = SumSeq(response.dimensions, "contribution")

\* A report of nine dimensions with a positive total
C4_Witness ==
    /\ Report
    /\ Len(response.dimensions) = Len(Dimensions)
    /\ response.total_score > 0

\* C5: the recommendations of a report are the first min(5, n) of the n
\* recommendations of the reported dimensions, concatenated in declared
\* detector order and, within a dimension, in breakdown order; never more
\* than five and never reordered.
C5_FirstFiveRecommendations ==
    Report =>
        LET all == RecommendationsIn(response.detector_results)
        IN  /\ InDeclaredOrder([i \in DOMAIN response.detector_results |->
                                   response.detector_results[i].dimension])
            /\ Len(response.recommendations) = Min(5, Len(all))
            /\ Len(response.recommendations) <= 5
            /\ \A i \in DOMAIN response.recommendations :
                  response.recommendations[i] = all[i]

\* A report that kept five of more than five recommendations, the dropped
\* ones including one that differs from those kept
C5_Witness ==
    /\ Report
    /\ LET all == RecommendationsIn(response.detector_results)
       IN  /\ Len(all) > 5
           /\ Len(response.recommendations) = 5
           /\ \E i \in DOMAIN all :
                 \A j \in DOMAIN response.recommendations :
                     all[i] # response.recommendations[j]

\* C6: the dimensions of every report follow the declared order (a
\* subsequence of it when detectors fail), and technical_infrastructure is
\* run and reported only for URL-based audits, never when content_text is
\* supplied.
C6_DeclaredOrderAndUrlOnly ==
    LET ran == [i \in DOMAIN detector_results |-> detector_results[i].dimension]
        reported == [i \in DOMAIN response.dimensions |-> response.dimensions[i].name]
    IN  /\ InDeclaredOrder(ran)
        /\ InDeclaredOrder(reported)
        /\ \A i \in DOMAIN ran :
              ran[i] = "technical_infrastructure" =>
                  Truthy(request.url) /\ ~Truthy(request.content_text)
        /\ \A i \in DOMAIN reported :
              reported[i] = "technical_infrastructure" =>
                  Truthy(request.url) /\ ~Truthy(request.content_text)
        /\ Report /\ Truthy(request.url) /\ ~Truthy(request.content_text)
              /\ ~InfrastructureAnalyze(page_data).raised
           => reported[1] = "technical_infrastructure"

\* A text-mode report that starts with metadata_schema and lacks a dimension
\* whose detector raised
C6_Witness ==
    /\ Report
    /\ Truthy(request.content_text) /\ Truthy(request.url)
    /\ Len(response.dimensions) = Len(Dimensions) - 2
    /\ response.dimensions[1].name = "metadata_schema"

\* C7: the metadata score is at most 30 whenever Critical Schema Types has raw
\* score 0 (no critical type, or its evaluator failed), whatever the other two
\* sub-scores are; with a critical type it is the uncapped weighted sum.
C7_MetadataCap ==
    \A n \in DOMAIN detector_results :
        LET r == detector_results[n]
        IN  r.dimension = "metadata_schema" =>
                /\ r.breakdown[2].raw_score = 0 => r.score <= Pts(30) * 100
                /\ r.breakdown[2].raw_score > 0 =>
                       r.score = SumSeq(r.breakdown, "weighted_score")

\* The critical-types evaluator failed on a page that has JSON-LD and entity
\* depth, and the score is held at 30
C7_Witness ==
    /\ "metadata.critical_types" \in failing
    /\ \E n \in DOMAIN detector_results :
          LET r == detector_results[n]
          IN  /\ r.dimension = "metadata_schema"
              /\ IsSynthetic(r.breakdown[2])
              /\ r.breakdown[1].raw_score = Pts(100)
              /\ r.breakdown[3].raw_score = Pts(100)
              /\ r.score = Pts(30) * 100

\* C8: a URL-mode audit in which all nine dimensions score 100 under the
\* default weights (sum 1.06) completes with a report whose total_score is 106.
C8_PerfectPageTotals106 ==
    (/\ pc = "done"
     /\ weights_ok /\ DOMAIN weights_table = {}
     /\ Len(detector_results) = Len(Dimensions)
     /\ \A n \in DOMAIN detector_results :
           /\ detector_results[n].score = Pts(100) * 100
           /\ detector_results[n].weight = DefaultWeight[detector_results[n].dimension])
    => /\ Report
       /\ response.total_score = Pts(106) * 100 * 100

\* No entry of the weights file changes a sub-metric weight
DefaultSubWeights ==
    ~weights_ok
    \/ DOMAIN weights_table \cap {"https", "ssr_detection", "crawlability",
                                  "render_speed"} = {}

\* C9: under the default configuration the weights of the breakdown entries
\* of every returned result sum to exactly 1.0 and the dimension score lies
\* in [0, 100], whatever the snapshot and whichever evaluators fail.
C9_WeightsSumToOne ==
    DefaultSubWeights =>
        \A n \in DOMAIN detector_results :
            /\ SumSeq(detector_results[n].breakdown, "weight") = 100
            /\ detector_results[n].score >= 0
            /\ detector_results[n].score <= Pts(100) * 100

\* C10: each of the nine detectors takes its dimension weight from the weights
\* file when the file has an entry for its dimension, and uses its hardcoded
\* default only otherwise.
C10_WeightFromTable ==
    \A n \in DOMAIN detector_results :
        LET r == detector_results[n]
        IN  r.weight = IF weights_ok /\ r.dimension \in DOMAIN weights_table
                       THEN weights_table[r.dimension]
                       ELSE DefaultWeight[r.dimension]

\* C11: when the weights file cannot be loaded, every detector is still
\* constructed and uses its hardcoded default weight, and the audit still
\* produces a report.
C11_ReportWithoutWeightTable ==
    (pc = "done" /\ ~weights_ok /\ AcquisitionSucceeds)
    => /\ \A n \in DOMAIN detector_results :
              detector_results[n].weight = DefaultWeight[detector_results[n].dimension]
       /\ Report

\* A run of a detector in a process with the given set iteration order
AnalyzeIn(d, p, order) ==
    IF d = "metadata_schema" THEN MetadataAnalyzeIn(p, order) ELSE Analyze(d, p)

\* What each detector produces on the snapshot in such a process
OutcomesIn(order) ==
    [i \in DOMAIN Dimensions |->
        [dimension |-> Dimensions[i], out |-> AnalyzeIn(Dimensions[i], page_data, order)]]

\* The detector was invoked and returned a result
Returned(x) == x.dimension \in Applicable /\ ~x.out.raised

\* The detector results of a run of the same audit in such a process
ResultsIn(order) ==
    LET kept == SelectSeq(OutcomesIn(order), Returned)
    IN  [i \in DOMAIN kept |-> kept[i].out.result]

\* C12: two runs of the audit on the same snapshot and the same weights file
\* produce the same dimensions, scores, weights, contributions, breakdown and
\* recommendations; nothing depends on the iteration order of an unordered
\* collection.
C12_RunsIdentical ==
    Report =>
        \A order \in IterationOrders :
            /\ response.detector_results = ResultsIn(order)
            /\ response.recommendations =
                   top_recommendations(RecommendationsIn(ResultsIn(order)))

\* The part of C12 that the code keeps: the scores, weights and contributions
\* of a second run are those of the first
C12_ScoresIdentical ==
    Report =>
        \A order \in IterationOrders :
            LET again == ResultsIn(order)
            IN  /\ Len(again) = Len(response.dimensions)
                /\ \A i \in DOMAIN again :
                      DimensionScore(again[i]) = response.dimensions[i]

\* The facts of a snapshot that do not come from its text or markup
TransportFeatures ==
    {"is_https", "has_noindex", "has_nofollow", "has_none", "load_time_ms"}

\* text_content, html_raw and html_rendered are all empty
IsEmptySnapshot(p) == \A f \in Features \ TransportFeatures : p[f] = EmptyPage[f]

\* The sub-metric weights in force for the infrastructure dimension sum to 1.0
CorrectlyConfigured ==
    ConfigWeight("https", HTTPS_WEIGHT) + ConfigWeight("ssr_detection", SSR_WEIGHT)
    + ConfigWeight("crawlability", CRAWLABILITY_WEIGHT)
    + ConfigWeight("render_speed", SPEED_WEIGHT) = 100

WithoutWhitespace(html) == html.chars

\* The request was answered from a scraped page
ScrapedPage ==
    pc # "acquire" /\ ~Truthy(request.content_text) /\ Truthy(request.url)
    /\ web.scrape = "ok"

\* C14: the render-mode classifier returns CSR (false) whenever the raw HTML
\* has no character left after whitespace removal, whatever the rendered HTML;
\* otherwise it returns SSR (true) exactly when at least 2 of the 3 raw-HTML
\* indicators hold (more than 2 paragraphs, more than 1 heading, an
\* article/main container) or renderedLen / rawLen < 1.5.
C14_RenderModeClassifier ==
    ScrapedPage =>
        LET html_raw == web.page.html[1]
            html_rendered == web.page.html[2]
            rawLen == WithoutWhitespace(html_raw)
            renderedLen == WithoutWhitespace(html_rendered)
            indicators == Cardinality({i \in 1..3 :
                              \/ i = 1 /\ html_raw.paragraphs > 2
                              \/ i = 2 /\ html_raw.headings > 1
                              \/ i = 3 /\ html_raw.container})
        IN  page_data.is_ssr =
                IF rawLen = 0 THEN FALSE
                ELSE indicators >= 2 \/ 2 * renderedLen < 3 * rawLen

\* The Rule-of-60 entry of the AEO result, when its evaluator ran
RuleOf60Entries ==
    {detector_results[n].breakdown[1] :
        n \in {m \in DOMAIN detector_results :
                  /\ detector_results[m].dimension = "aeo_structure"
                  /\ "aeo.prepare" \notin failing
                  /\ "aeo.rule_60" \notin failing}}

\* C15: given a substantive first paragraph, the Rule-of-60 raw score is set
\* by the first matching rule: definition phrase and no narrative opener ->
\* 100; else factual lead (at least 2 of action verb, numeric data, named
\* entities) and no narrative opener -> 80; else narrative opener -> 40; else
\* more than 60 words -> 0; else 30.
C15_RuleOf60Priority ==
    \A entry \in RuleOf60Entries :
        page_data.first_p =>
            LET signals == Cardinality({f \in {"has_action_verb", "has_numeric_data",
                                              "has_named_entities"} : page_data[f]})
            IN  entry.raw_score =
                    IF page_data.has_definition /\ ~page_data.is_narrative THEN Pts(100)
                    ELSE IF signals >= 2 /\ ~page_data.is_narrative THEN Pts(80)
                    ELSE IF page_data.is_narrative THEN Pts(40)
                    ELSE IF page_data.is_too_long THEN 0
                    ELSE Pts(30)

\* A narrative opener of more than 60 words that contains a definition phrase
\* scored 40
C15_Witness ==
    \E entry \in RuleOf60Entries :
        /\ page_data.first_p /\ page_data.is_narrative
        /\ page_data.has_definition /\ page_data.is_too_long
        /\ entry.raw_score = Pts(40)

\* The page's first paragraph contains a definition phrase and does not start
\* with a narrative opener
OpensWithDefinition(p) ==
    \/ p.opening = "definition"
    \/ p.opening = "none" /\ p.first_p /\ p.has_definition /\ ~p.is_narrative

\* C16: whenever the first paragraph of the page contains a definition phrase
\* and does not start with a narrative opener, the Rule-of-60 raw score is
\* 100, also for a short lead paragraph such as "SEO is the process of
\* optimizing websites...".
C16_DefinitionLeadScores100 ==
    \A entry \in RuleOf60Entries :
        OpensWithDefinition(page_data) => entry.raw_score = Pts(100)

\* The entry of the evidence result, when its evaluator ran
EvidenceEntries ==
    {detector_results[n].breakdown[1] :
        n \in {m \in DOMAIN detector_results :
                  /\ detector_results[m].dimension = "evidence_density"
                  /\ "evidence.claims" \notin failing}}

UnmarkedClaims ==
    LET claims == claim_sentences(page_data)
    IN  {claims[i] : i \in {j \in DOMAIN claims : ~claims[j].marker_inline}}

\* C18: a detected claim counts as verified if and only if (a) the sentence
\* holds an inline citation marker, or (b) a citation marker follows in the
\* short lookahead window, or (c) the element containing the claim text, or
\* one of its up to 2 siblings in each direction short of a heading or rule,
\* contains a hyperlink; a hyperlink outside that range never verifies it.
C18_VerifiedIffCited ==
    \A entry \in EvidenceEntries :
        LET claims == claim_sentences(page_data)
            cited == {i \in DOMAIN claims :
                        \/ claims[i].marker_inline
                        \/ claims[i].context.marker_lookahead
                        \/ claims[i].context.link_in_element}
        IN  /\ verified_count(page_data) = Cardinality(cited)
            /\ \A i \in DOMAIN claims : is_verified(claims[i]) <=> i \in cited

\* The Trust Pages entry of the authority result
TrustEntries ==
    {detector_results[n].breakdown[3] :
        n \in {m \in DOMAIN detector_results :
                  /\ detector_results[m].dimension = "eeat_authority"
                  /\ Len(detector_results[m].breakdown) = 3}}

\* C19: the Trust Pages raw score is 100 only when both a high-value page
\* type (about, team, editorial, authors, staff) and a basic page type
\* (privacy, terms, policy, legal, contact) are linked; with only basic page
\* types it is 40, and with neither it is 0.
C19_FullCreditNeedsBoth ==
    \A entry \in TrustEntries :
        /\ entry.raw_score = Pts(100) =>
              page_data.trust_high > 0 /\ page_data.trust_basic > 0
        /\ (page_data.trust_high = 0 /\ page_data.trust_basic > 0) =>
              entry.raw_score = Pts(40)
        /\ (page_data.trust_high = 0 /\ page_data.trust_basic = 0) =>
              entry.raw_score = 0

\* C19 as amended: the Trust Pages raw score is 100 only when a high-value
\* page type is linked and at least 3 distinct trust page types are linked in
\* all; with only basic page types it is 40, and with neither it is 0.
C19_FullCreditNeedsHighValueAndThree ==
    \A entry \in TrustEntries :
        /\ entry.raw_score = Pts(100) =>
              /\ page_data.trust_high > 0
              /\ page_data.trust_high + page_data.trust_basic >= 3
        /\ (page_data.trust_high = 0 /\ page_data.trust_basic > 0) =>
              entry.raw_score = Pts(40)
        /\ (page_data.trust_high = 0 /\ page_data.trust_basic = 0) =>
              entry.raw_score = 0

\* Three high-value page types and no basic one got full credit
C19_Witness ==
    \E entry \in TrustEntries :
        /\ page_data.trust_high >= 3 /\ page_data.trust_basic = 0
        /\ entry.raw_score = Pts(100)

\* The result of the links detector, when it returned one
LinksResults ==
    {detector_results[n] :
        n \in {m \in DOMAIN detector_results :
                  /\ detector_results[m].dimension = "links_verifiability"
                  /\ Len(detector_results[m].breakdown) = 2}}

\* The anchors of the analysed page that lead to another site which is
\* neither a social nor a partner site
ExternalCitations ==
    LET leads_out(href) ==
            /\ href.form # "relative" /\ href.host # "own"
            /\ href.host \notin {"social", "partner"}
    IN  SelectSeq(hrefs(page_data), leads_out)

\* The number of those anchors that name a recognized authority domain, each
\* a different one
AuthorityCitations ==
    LET is_authority(href) == href.host = "authority"
    IN  Len(SelectSeq(ExternalCitations, is_authority))

\* C20: the external-link sub-metric scores 100 with at least 3 external
\* links that are neither social nor partner links, 60 with 1 or 2 and 0
\* with none; the authority sub-metric scores 100 with at least 2 distinct
\* recognized-authority domains among those links, 50 with exactly 1 and 0
\* with none; the dimension score is the equally weighted sum, so that 3 such
\* links of which 2 name distinct authority domains give 100.
C20_LinkTiers ==
    \A result \in LinksResults :
        LET ext == Len(ExternalCitations)
            auth == AuthorityCitations
            external == result.breakdown[1]
            authority == result.breakdown[2]
        IN  /\ external.raw_score =
                  IF ext >= 3 THEN Pts(100) ELSE IF ext >= 1 THEN Pts(60) ELSE 0
            /\ authority.raw_score =
                  IF auth >= 2 THEN Pts(100) ELSE IF auth = 1 THEN Pts(50) ELSE 0
            /\ external.weight = authority.weight
            /\ result.score = external.raw_score * external.weight
                              + authority.raw_score * authority.weight
            /\ (ext >= 3 /\ auth >= 2) => result.score = Pts(100) * 100

\* The dimension entries of the report, when the audit returned one
ReportedDimensions ==
    IF response.status_code = 200
    THEN {response.dimensions[i] : i \in DOMAIN response.dimensions}
    ELSE {}

\* C21: the status reported for each dimension of the audit report is derived
\* from the reported score alone: green if score >= 80, yellow if
\* 50 <= score < 80, red if score < 50.
C21_StatusFromScore ==
    \A dim \in ReportedDimensions :
        /\ dim.status = "green" <=> dim.score >= Pts(80) * 100
        /\ dim.status = "yellow" <=>
              (dim.score >= Pts(50) * 100 /\ dim.score < Pts(80) * 100)
        /\ dim.status = "red" <=> dim.score < Pts(50) * 100

\* A report holds a dimension scoring exactly 50, reported yellow
C21_Witness ==
    \E dim \in ReportedDimensions :
        dim.score = Pts(50) * 100 /\ dim.status = "yellow"

SpeedEntries ==
    {detector_results[n].breakdown[4] :
        n \in {m \in DOMAIN detector_results :
                  /\ detector_results[m].dimension = "technical_infrastructure"
                  /\ "infra.speed" \notin failing}}

\* C23: the page-load-speed raw score is 100 for a load time below 2000 ms,
\* 80 for 2000 <= t < 4000, 60 for 4000 <= t < 6000, 30 for
\* 6000 <= t < 10000 and 0 from 10000 ms on: each boundary value falls into
\* the lower-scoring tier.
C23_SpeedTiers ==
    \A entry \in SpeedEntries :
        LET t == page_data.load_time_ms
        IN  /\ t < 2000 => entry.raw_score = Pts(100)
            /\ (2000 <= t /\ t < 4000) => entry.raw_score = Pts(80)
            /\ (4000 <= t /\ t < 6000) => entry.raw_score = Pts(60)
            /\ (6000 <= t /\ t < 10000) => entry.raw_score = Pts(30)
            /\ t >= 10000 => entry.raw_score = 0

\* A page loaded in exactly 2000 ms scored 80
C23_Witness ==
    \E entry \in SpeedEntries :
        page_data.load_time_ms = 2000 /\ entry.raw_score = Pts(80)

\* The number of evaluators each detector declares
DeclaredEvaluators ==
    [technical_infrastructure |-> 4, metadata_schema |-> 3, aeo_structure |-> 7,
     entity_identification |-> 3, evidence_density |-> 1, eeat_authority |-> 3,
     format_citability |-> 3, freshness |-> 2, links_verifiability |-> 2]

\* C24: every DimensionResult contains exactly one breakdown entry per
\* declared evaluator of its detector, in declared order, whether each
\* evaluator succeeded or failed: 4 for infrastructure (HTTPS, rendering mode,
\* crawlability, speed), 3 for metadata (schema presence, critical types,
\* entity depth), 7 for AEO structure, 3 for entity, 1 for evidence, 3 for
\* authority, 3 for formatting, 2 for freshness, 2 for links.
C24_OneEntryPerEvaluator ==
    \A n \in DOMAIN detector_results :
        LET result == detector_results[n]
            names == [i \in DOMAIN result.breakdown |-> result.breakdown[i].name]
        IN  /\ Len(result.breakdown) = DeclaredEvaluators[result.dimension]
            /\ result.dimension = "technical_infrastructure" =>
                  /\ names[1] = "HTTPS Security" /\ names[3] = "Crawlability"
                  /\ names[4] = "Page Load Speed"
            /\ result.dimension = "metadata_schema" =>
                  names[1] = "Schema Presence" /\ names[2] = "Critical Schema Types"

\* The Crawlability entry of the infrastructure result, when its evaluator ran
CrawlabilityEntries ==
    {detector_results[n].breakdown[3] :
        n \in {m \in DOMAIN detector_results :
                  /\ detector_results[m].dimension = "technical_infrastructure"
                  /\ "infra.crawlability" \notin failing}}

C26_FreshnessNeverRaises ==
    (pc # "acquire" /\ AcquisitionSucceeds /\ failing = {}) =>
        LET out == FreshnessAnalyze(page_data)
        IN  /\ ~out.raised
            /\ Len(out.result.breakdown) = 2

\* C27: the evidence raw score is monotone in citation quality: with the
\* number V of verified claims held fixed, one more unverified claim never
\* increases the score: score(V, T+1) <= score(V, T) whenever T >= 1.
C27_MoreUnverifiedNeverHelps ==
    \A entry \in EvidenceEntries :
        LET V == verified_count(page_data)
            T == page_data.claims[2]
        IN  T >= 1 => evidence_score(V, T + 1) <= entry.raw_score

\* C27 as amended: score(V, T+1) <= score(V, T) whenever T >= 1, unless
\* V = T = 2, where the third claim lifts the low-volume cap and the score
\* rises from 60 to 66.7.
C27_MoreUnverifiedNeverHelpsBeyondCap ==
    \A entry \in EvidenceEntries :
        LET V == verified_count(page_data)
            T == page_data.claims[2]
        IN  (T >= 1 /\ ~(V = 2 /\ T = 2)) =>
                evidence_score(V, T + 1) <= entry.raw_score

\* Three verified claims scored 100, and a fourth unverified one would
\* bring 75
C27_Witness ==
    \E entry \in EvidenceEntries :
        /\ verified_count(page_data) = 3 /\ page_data.claims[2] = 3
        /\ entry.raw_score = Pts(100)
        /\ evidence_score(3, 4) = Pts(75)

\* C28: an audit request that supplies neither a URL nor content_text is
\* rejected with HTTP status 400, no detector is run, and no report is
\* produced.
C28_EmptyRequestRejected400 ==
    (pc = "done" /\ ~Truthy(request.url) /\ ~Truthy(request.content_text)) =>
        /\ response.status_code = 400
        /\ detector_results = <<>>
        /\ response.dimensions = <<>>

\* The calls of scrape that have returned or raised
Finished == {c \in Callers : calls[c].pc = "done"}

\* The calls whose browser context is still open
HoldingContext == {x.call : x \in resources.contexts}

\* C29: every scrape call that opened a browser context has closed it when
\* the call returns or raises, and a call that fails after the URL was
\* validated raises ScraperError, so every finished call has returned
\* PageData or raised ScraperError
C29_ContextClosedAndScraperError ==
    \A c \in Finished :
        /\ c \notin HoldingContext
        /\ calls[c].outcome \in {"PageData", "ScraperError"}

\* C30: whatever the interleaving of the scrape calls on the shared scraper,
\* at most one browser is launched before the scraper is closed, and once
\* close() has returned no launched browser and no started driver is left
C30_OneBrowserAndCleanClose ==
    /\ resources.launched <= 1
    /\ calls[Lifespan].pc = "done" =>
           resources.browsers = {} /\ resources.drivers = {}

====
